---- MODULE Spec2Model ----
(***************************************************************************)
(* Model of the expenses-by-month report of jet-finances                   *)
(* (GET /api/expenses/export-excel in src/src/server/index.ts): the ATS    *)
(* filter, the category classifier, the currency converter, the period     *)
(* splitter, the accumulation loop and the grid that is handed to the      *)
(* spreadsheet library.                                                    *)
(*                                                                         *)
(* Representation.                                                         *)
(*  - Text the code inspects character by character (exp_type,             *)
(*    exp_subtype, invoice type names, row labels) is a sequence of        *)
(*    one-character strings; null and '' are both the empty sequence       *)
(*    (the code reads them through `x || ''`).                             *)
(*  - A date column is a record [y, m, d] with m in 1..12; NullDate is     *)
(*    SQL NULL.  `new Date('YYYY-MM-DD')` is UTC midnight and the image    *)
(*    built by src/Dockerfile sets no TZ, so the local getters             *)
(*    getFullYear / getMonth / getDate read the same calendar day.         *)
(*  - Amounts are exact rationals [num, den] (den > 0, lowest terms).      *)
(*  - A month key `YYYY-MM` is the number YYYY * 100 + MM, which orders    *)
(*    as the zero-padded string does.                                      *)
(*  - Row ids, flight ids and invoice ids are positive numbers; 0 is NULL. *)
(***************************************************************************)
EXTENDS Integers, Sequences, FiniteSets, TLC

VARIABLES
    expenses,          \* enrichedExpenses: the fetched snapshot
    opts,              \* [yearFilter, showSubcategories, reportForATS]
    now,               \* the calendar day `new Date()` returns
    pc,                \* position of the handler
    filteredExpenses,  \* the list the forEach loop runs over
    idx,               \* number of elements the forEach loop has processed
    categoryGroups,    \* [nonFlight, flight]: sequences of category rows
    incomeItems,       \* [creditNote, charterProfit]: month key -> cell
    allMonthsSet,      \* month keys touched by an accumulation
    response,          \* [status, data]: what the handler answers
    months,            \* last result of the period splitter
    call,              \* a helper applied on its own: arguments and result
    peer,              \* the locals of a second request suspended at an await
    table              \* the rows of the expenses table

vars == <<expenses, opts, now, pc, filteredExpenses, idx, categoryGroups,
          incomeItems, allMonthsSet, response, months, call, peer, table>>

---------------------------------------------------------------------------
(* Bounds of the model.                                                    *)

MaxExpenses == 2       \* rows in a fetched snapshot
YearsAfter == 1        \* calendar years modelled after the cutoff year
MidDay == 15           \* the day of month used for "not the first day"
AmountUnit == 1200     \* the amount of a modelled expense

---------------------------------------------------------------------------
(* Exact rational arithmetic for JavaScript numbers.                       *)

Abs(x) == IF x < 0 THEN -x ELSE x

RECURSIVE GCD(_, _)
GCD(a, b) == IF b = 0 THEN a ELSE GCD(b, a % b)

Rat(n, d) ==
    LET g == GCD(Abs(n), Abs(d))
        s == IF d < 0 THEN -1 ELSE 1
    IN  [num |-> s * (n \div g), den |-> s * (d \div g)]

RZero == [num |-> 0, den |-> 1]

RInt(n) == [num |-> n, den |-> 1]

RAdd(a, b) ==
    LET g == GCD(a.den, b.den)
        l == (a.den \div g) * b.den
    IN  Rat(a.num * (l \div a.den) + b.num * (l \div b.den), l)

RNeg(a) == [num |-> -a.num, den |-> a.den]

RSub(a, b) == RAdd(a, RNeg(b))

RMul(a, b) ==
    LET g1 == GCD(Abs(a.num), b.den)
        g2 == GCD(Abs(b.num), a.den)
    IN  Rat((a.num \div g1) * (b.num \div g2), (a.den \div g2) * (b.den \div g1))

RDiv(a, b) == RMul(a, Rat(b.den, b.num))

RECURSIVE RSum(_)
RSum(s) == IF s = <<>> THEN RZero ELSE RAdd(Head(s), RSum(Tail(s)))

---------------------------------------------------------------------------
(* Strings as character sequences.                                         *)

UpperChars == <<"A", "B", "C", "D", "E", "F", "G", "H", "I", "J", "K", "L", "M",
                "N", "O", "P", "Q", "R", "S", "T", "U", "V", "W", "X", "Y", "Z">>

LowerChars == <<"a", "b", "c", "d", "e", "f", "g", "h", "i", "j", "k", "l", "m",
                "n", "o", "p", "q", "r", "s", "t", "u", "v", "w", "x", "y", "z">>

LowerChar(c) ==
    IF \E k \in 1..Len(UpperChars) : UpperChars[k] = c
    THEN LowerChars[CHOOSE k \in 1..Len(UpperChars) : UpperChars[k] = c]
    ELSE c

\* toLowerCase leaving the letters as they are
toLowerCaseAsIs(s) == s

toLowerCase(s) == [k \in 1..Len(s) |-> LowerChar(s[k])]

includes(s, t) ==
    \E k \in 0..(Len(s) - Len(t)) : SubSeq(s, k + 1, k + Len(t)) = t

RECURSIVE trimStart(_)
trimStart(s) ==
    IF s # <<>> /\ Head(s) = " " THEN trimStart(Tail(s)) ELSE s

RECURSIVE trimEnd(_)
trimEnd(s) ==
    IF s # <<>> /\ s[Len(s)] = " " THEN trimEnd(SubSeq(s, 1, Len(s) - 1)) ELSE s

trim(s) == trimEnd(trimStart(s))

---------------------------------------------------------------------------
(* String literals of the handler.                                         *)

\* the lower-case literals the classifier and the income test compare with
kw ==
    [ camo_and_management |-> <<"c", "a", "m", "o", " ", "a", "n", "d", " ", "m", "a", "n", "a", "g", "e", "m", "e", "n", "t">>,
      camo |-> <<"c", "a", "m", "o">>,
      management |-> <<"m", "a", "n", "a", "g", "e", "m", "e", "n", "t">>,
      crew |-> <<"c", "r", "e", "w">>,
      disbursement_fee |-> <<"d", "i", "s", "b", "u", "r", "s", "e", "m", "e", "n", "t", " ", "f", "e", "e">>,
      disbursement |-> <<"d", "i", "s", "b", "u", "r", "s", "e", "m", "e", "n", "t">>,
      insurance_charge |-> <<"i", "n", "s", "u", "r", "a", "n", "c", "e", " ", "c", "h", "a", "r", "g", "e">>,
      insurance |-> <<"i", "n", "s", "u", "r", "a", "n", "c", "e">>,
      maintenance |-> <<"m", "a", "i", "n", "t", "e", "n", "a", "n", "c", "e">>,
      subscriptions |-> <<"s", "u", "b", "s", "c", "r", "i", "p", "t", "i", "o", "n", "s">>,
      subscription |-> <<"s", "u", "b", "s", "c", "r", "i", "p", "t", "i", "o", "n">>,
      falconcare |-> <<"f", "a", "l", "c", "o", "n", "c", "a", "r", "e">>,
      falcon_care |-> <<"f", "a", "l", "c", "o", "n", " ", "c", "a", "r", "e">>,
      honeywell |-> <<"h", "o", "n", "e", "y", "w", "e", "l", "l">>,
      ground_handling |-> <<"g", "r", "o", "u", "n", "d", " ", "h", "a", "n", "d", "l", "i", "n", "g">>,
      groundhandling |-> <<"g", "r", "o", "u", "n", "d", "h", "a", "n", "d", "l", "i", "n", "g">>,
      fuel |-> <<"f", "u", "e", "l">>,
      navigation_charges |-> <<"n", "a", "v", "i", "g", "a", "t", "i", "o", "n", " ", "c", "h", "a", "r", "g", "e", "s">>,
      navigation |-> <<"n", "a", "v", "i", "g", "a", "t", "i", "o", "n">>,
      enroute |-> <<"e", "n", "r", "o", "u", "t", "e">>,
      overfly_charges |-> <<"o", "v", "e", "r", "f", "l", "y", " ", "c", "h", "a", "r", "g", "e", "s">>,
      overfly |-> <<"o", "v", "e", "r", "f", "l", "y">>,
      overflight |-> <<"o", "v", "e", "r", "f", "l", "i", "g", "h", "t">>,
      catering |-> <<"c", "a", "t", "e", "r", "i", "n", "g">>,
      food |-> <<"f", "o", "o", "d">>,
      flight_planning |-> <<"f", "l", "i", "g", "h", "t", " ", "p", "l", "a", "n", "n", "i", "n", "g">>,
      flightplanning |-> <<"f", "l", "i", "g", "h", "t", "p", "l", "a", "n", "n", "i", "n", "g">>,
      other_charges |-> <<"o", "t", "h", "e", "r", " ", "c", "h", "a", "r", "g", "e", "s">>,
      credit |-> <<"c", "r", "e", "d", "i", "t">>,
      note |-> <<"n", "o", "t", "e">>,
      charter |-> <<"c", "h", "a", "r", "t", "e", "r">>,
      profit |-> <<"p", "r", "o", "f", "i", "t">> ]

\* the category names and the labels of the three summary rows
cat ==
    [ CAMO_and_Management |-> <<"C", "A", "M", "O", " ", "a", "n", "d", " ", "M", "a", "n", "a", "g", "e", "m", "e", "n", "t">>,
      Crew |-> <<"C", "r", "e", "w">>,
      Disbursement_fee |-> <<"D", "i", "s", "b", "u", "r", "s", "e", "m", "e", "n", "t", " ", "f", "e", "e">>,
      Insurance_charge |-> <<"I", "n", "s", "u", "r", "a", "n", "c", "e", " ", "c", "h", "a", "r", "g", "e">>,
      Maintenance |-> <<"M", "a", "i", "n", "t", "e", "n", "a", "n", "c", "e">>,
      Subscriptions |-> <<"S", "u", "b", "s", "c", "r", "i", "p", "t", "i", "o", "n", "s">>,
      Other_charges |-> <<"O", "t", "h", "e", "r", " ", "c", "h", "a", "r", "g", "e", "s">>,
      FalconCare |-> <<"F", "a", "l", "c", "o", "n", "C", "a", "r", "e">>,
      Honeywell |-> <<"H", "o", "n", "e", "y", "w", "e", "l", "l">>,
      Ground_handling |-> <<"G", "r", "o", "u", "n", "d", " ", "h", "a", "n", "d", "l", "i", "n", "g">>,
      Fuel |-> <<"F", "u", "e", "l">>,
      Navigation_charges |-> <<"N", "a", "v", "i", "g", "a", "t", "i", "o", "n", " ", "c", "h", "a", "r", "g", "e", "s">>,
      Overfly_charges |-> <<"O", "v", "e", "r", "f", "l", "y", " ", "c", "h", "a", "r", "g", "e", "s">>,
      Catering |-> <<"C", "a", "t", "e", "r", "i", "n", "g">>,
      Flight_planning |-> <<"F", "l", "i", "g", "h", "t", " ", "p", "l", "a", "n", "n", "i", "n", "g">>,
      Credit_note |-> <<"C", "r", "e", "d", "i", "t", " ", "n", "o", "t", "e">>,
      Total |-> <<"T", "o", "t", "a", "l">>,
      Charter_profit |-> <<"C", "h", "a", "r", "t", "e", "r", " ", "p", "r", "o", "f", "i", "t">> ]

sep == <<" ", "-", " ">>

---------------------------------------------------------------------------
(* Dates.                                                                  *)

NullDate == [y |-> 0, m |-> 0, d |-> 0]

getFullYear(date) == date.y

getMonth(date) == date.m - 1

getDate(date) == date.d

\* a strictly increasing stand-in for the milliseconds Date comparison uses
getTime(date) == (date.y * 12 + (date.m - 1)) * 31 + date.d

\* `${year}-${String(month + 1).padStart(2, '0')}` for a 0-based month
monthKeyOf(year, month) == year * 100 + (month + 1)

\* parseInt(monthKey.split('-')[0], 10)
yearOfKey(monthKey) == monthKey \div 100

---------------------------------------------------------------------------
(* Program constants.                                                      *)

\* CURRENCY_RATES with the two rates swapped
CURRENCY_RATES_Swapped ==
    [AED_TO_USD |-> Rat(43119, 10000), AED_TO_EUR |-> Rat(36735, 10000)]

CURRENCY_RATES == [AED_TO_USD |-> Rat(36735, 10000), AED_TO_EUR |-> Rat(43119, 10000)]

NON_FLIGHT_CATEGORIES ==
    { cat.CAMO_and_Management, cat.Crew, cat.Disbursement_fee, cat.Insurance_charge,
      cat.Maintenance, cat.Subscriptions, cat.Other_charges, cat.FalconCare,
      cat.Honeywell }

october2025 == [y |-> 2025, m |-> 10, d |-> 1]

\* getBaseExpenseCategory answers null for a type outside every category
NoCategory == <<>>

---------------------------------------------------------------------------
(* Category classifier.                                                    *)

getBaseExpenseCategory(expense) ==
    LET type == toLowerCase(expense.exp_type)
    IN  IF type = kw.camo_and_management
           \/ (includes(type, kw.camo) /\ includes(type, kw.management))
        THEN cat.CAMO_and_Management
        ELSE IF type = kw.crew THEN cat.Crew
        ELSE IF type = kw.disbursement_fee \/ includes(type, kw.disbursement)
        THEN cat.Disbursement_fee
        ELSE IF type = kw.insurance_charge \/ includes(type, kw.insurance)
        THEN cat.Insurance_charge
        ELSE IF type = kw.maintenance THEN cat.Maintenance
        ELSE IF type = kw.subscriptions \/ includes(type, kw.subscription)
        THEN cat.Subscriptions
        ELSE IF type = kw.falconcare \/ includes(type, kw.falconcare)
                \/ includes(type, kw.falcon_care)
        THEN cat.FalconCare
        ELSE IF type = kw.honeywell THEN cat.Honeywell
        ELSE IF type = kw.ground_handling \/ includes(type, kw.ground_handling)
                \/ includes(type, kw.groundhandling)
        THEN cat.Ground_handling
        ELSE IF type = kw.fuel THEN cat.Fuel
        ELSE IF type = kw.navigation_charges \/ includes(type, kw.navigation)
                \/ includes(type, kw.enroute)
        THEN cat.Navigation_charges
        ELSE IF type = kw.overfly_charges \/ includes(type, kw.overfly)
                \/ includes(type, kw.overflight)
        THEN cat.Overfly_charges
        ELSE IF type = kw.catering \/ includes(type, kw.catering)
                \/ includes(type, kw.food)
        THEN cat.Catering
        ELSE IF type = kw.flight_planning \/ includes(type, kw.flight_planning)
                \/ includes(type, kw.flightplanning)
        THEN cat.Flight_planning
        ELSE IF type = kw.other_charges \/ includes(type, kw.other_charges)
        THEN cat.Other_charges
        ELSE NoCategory

getExpenseCategory(expense) ==
    LET subtype == trim(expense.exp_subtype)
        baseCategory == getBaseExpenseCategory(expense)
    IN  IF baseCategory = NoCategory THEN NoCategory
        ELSE IF subtype # <<>> THEN baseCategory \o sep \o subtype
        ELSE baseCategory

\* only called for a classified expense (its null answer is never used)
isNonFlightExpense(expense) ==
    getBaseExpenseCategory(expense) \in NON_FLIGHT_CATEGORIES

---------------------------------------------------------------------------
(* ATS filter.                                                             *)

\* isPeriodBeforeOctober2025 with the cutoff day itself counted as before
isPeriodUpToOctober2025(expense) ==
    IF expense.exp_period_start = NullDate THEN FALSE
    ELSE getTime(expense.exp_period_start) <= getTime(october2025)

isPeriodBeforeOctober2025(expense) ==
    IF expense.exp_period_start = NullDate THEN FALSE
    ELSE getTime(expense.exp_period_start) < getTime(october2025)

isDisbursementFee(expense) ==
    getBaseExpenseCategory(expense) = cat.Disbursement_fee

\* isRelatedFee without the comparison of the periods
isRelatedFeeAnyPeriod(expense, exp) ==
    /\ isDisbursementFee(exp)
    /\ ~(expense.exp_invoice # 0 /\ exp.exp_invoice # expense.exp_invoice)
    /\ ~(expense.exp_invoice = 0 /\ exp.exp_invoice # 0)
    /\ IF expense.exp_flight # 0
       THEN exp.exp_flight = expense.exp_flight
       ELSE exp.exp_flight = 0
    /\ IF expense.exp_place # ""
       THEN exp.exp_place = expense.exp_place
       ELSE exp.exp_place = ""

\* does the loop body of findRelatedDisbursementFees reach its push for exp
isRelatedFee(expense, exp) ==
    /\ isDisbursementFee(exp)
    /\ ~(expense.exp_invoice # 0 /\ exp.exp_invoice # expense.exp_invoice)
    /\ ~(expense.exp_invoice = 0 /\ exp.exp_invoice # 0)
    /\ IF expense.exp_flight # 0
       THEN exp.exp_flight = expense.exp_flight
       ELSE exp.exp_flight = 0
    /\ IF expense.exp_period_start # NullDate /\ expense.exp_period_end # NullDate
       THEN /\ exp.exp_period_start = expense.exp_period_start
            /\ exp.exp_period_end = expense.exp_period_end
       ELSE /\ exp.exp_period_start = NullDate
            /\ exp.exp_period_end = NullDate
    /\ IF expense.exp_place # ""
       THEN exp.exp_place = expense.exp_place
       ELSE exp.exp_place = ""

findRelatedDisbursementFees(expense, allExpenses) ==
    LET Related(exp) == isRelatedFee(expense, exp)
    IN  SelectSeq(allExpenses, Related)

\* firstPass leaving the Disbursement fees to the second pass
firstPassSparingFees(enrichedExpenses) ==
    { enrichedExpenses[k].id :
        k \in { j \in 1..Len(enrichedExpenses) :
                  /\ isPeriodBeforeOctober2025(enrichedExpenses[j])
                  /\ ~isDisbursementFee(enrichedExpenses[j]) } }

\* first pass of the ATS filter: the ids the cutoff rule excludes
firstPass(enrichedExpenses) ==
    { enrichedExpenses[k].id :
        k \in { j \in 1..Len(enrichedExpenses) :
                  isPeriodBeforeOctober2025(enrichedExpenses[j]) } }

\* second pass: the loop from element k on, over the growing set of ids
RECURSIVE secondPass(_, _, _)
secondPass(k, excludedExpenseIds, enrichedExpenses) ==
    IF k > Len(enrichedExpenses) THEN excludedExpenseIds
    ELSE LET expense == enrichedExpenses[k]
             relatedFees == findRelatedDisbursementFees(expense, enrichedExpenses)
         IN  secondPass(k + 1,
                 IF expense.id \in excludedExpenseIds
                 THEN excludedExpenseIds
                        \cup { relatedFees[j].id : j \in 1..Len(relatedFees) }
                 ELSE excludedExpenseIds,
                 enrichedExpenses)

applyATSFilter(enrichedExpenses, reportForATS) ==
    IF reportForATS
    THEN LET excludedExpenseIds ==
                 secondPass(1, firstPass(enrichedExpenses), enrichedExpenses)
             Kept(exp) == exp.id \notin excludedExpenseIds
         IN  SelectSeq(enrichedExpenses, Kept)
    ELSE enrichedExpenses

---------------------------------------------------------------------------
(* Currency converter.                                                     *)

\* convertCurrency with AED to USD multiplying by the rate
convertCurrencyAEDTimesRate(amount, fromCurrency, toCurrency) ==
    IF amount = RZero \/ fromCurrency = "" \/ toCurrency = "" THEN RZero
    ELSE IF fromCurrency = toCurrency THEN amount
    ELSE IF fromCurrency = "EUR" /\ toCurrency = "AED"
    THEN RMul(amount, CURRENCY_RATES.AED_TO_EUR)
    ELSE IF fromCurrency = "EUR" /\ toCurrency = "USD"
    THEN RDiv(RMul(amount, CURRENCY_RATES.AED_TO_EUR), CURRENCY_RATES.AED_TO_USD)
    ELSE IF toCurrency = "EUR"
    THEN LET amountInAED ==
                 IF fromCurrency = "USD"
                 THEN RMul(amount, CURRENCY_RATES.AED_TO_USD)
                 ELSE IF fromCurrency = "AED" THEN amount
                 ELSE RZero
         IN  RDiv(amountInAED, CURRENCY_RATES.AED_TO_EUR)
    ELSE LET amountInUSD ==
                 IF fromCurrency = "AED"
                 THEN RMul(amount, CURRENCY_RATES.AED_TO_USD)
                 ELSE amount
         IN  IF toCurrency = "USD" THEN amountInUSD
             ELSE IF toCurrency = "AED"
             THEN RMul(amountInUSD, CURRENCY_RATES.AED_TO_USD)
             ELSE amount

convertCurrency(amount, fromCurrency, toCurrency) ==
    IF amount = RZero \/ fromCurrency = "" \/ toCurrency = "" THEN RZero
    ELSE IF fromCurrency = toCurrency THEN amount
    ELSE IF fromCurrency = "EUR" /\ toCurrency = "AED"
    THEN RMul(amount, CURRENCY_RATES.AED_TO_EUR)
    ELSE IF fromCurrency = "EUR" /\ toCurrency = "USD"
    THEN RDiv(RMul(amount, CURRENCY_RATES.AED_TO_EUR), CURRENCY_RATES.AED_TO_USD)
    ELSE IF toCurrency = "EUR"
    THEN LET amountInAED ==
                 IF fromCurrency = "USD"
                 THEN RMul(amount, CURRENCY_RATES.AED_TO_USD)
                 ELSE IF fromCurrency = "AED" THEN amount
                 ELSE RZero
         IN  RDiv(amountInAED, CURRENCY_RATES.AED_TO_EUR)
    ELSE LET amountInUSD ==
                 IF fromCurrency = "AED"
                 THEN RDiv(amount, CURRENCY_RATES.AED_TO_USD)
                 ELSE amount
         IN  IF toCurrency = "USD" THEN amountInUSD
             ELSE IF toCurrency = "AED"
             THEN RMul(amountInUSD, CURRENCY_RATES.AED_TO_USD)
             ELSE amount

---------------------------------------------------------------------------
(* Period splitter: the helper used for income items.                      *)

\* parseFloat(expense.exp_amount) || 0
amountOf(expense) == RInt(expense.exp_amount)

\* expense.exp_currency || 'USD'
currencyOf(expense) ==
    IF expense.exp_currency = "" THEN "USD" ELSE expense.exp_currency

\* flightId && expense.flights && expense.flights.flt_date
hasFlightDate(expense) == expense.exp_flight # 0 /\ expense.flt_date # NullDate

\* expense.created_at ? new Date(expense.created_at) : new Date()
createdDate(expense) ==
    IF expense.created_at # NullDate THEN expense.created_at ELSE now

\* isSingleMonth without the December-to-January disjunct
isSingleMonthSameYear(start, end) ==
    /\ getDate(end) = 1
    /\ getMonth(end) = (getMonth(start) + 1) % 12
    /\ getFullYear(end) = getFullYear(start)

isSingleMonth(start, end) ==
    LET startYear == getFullYear(start)
        startMonth == getMonth(start)
        endYear == getFullYear(end)
        endMonth == getMonth(end)
        endDay == getDate(end)
    IN  /\ endDay = 1
        /\ \/ (endMonth = (startMonth + 1) % 12 /\ endYear = startYear)
           \/ (endMonth = 0 /\ endYear = startYear + 1)

\* totalMonths with the end month left out of the formula
totalMonthsEndExcluded(start, end) ==
    IF isSingleMonth(start, end) THEN 1
    ELSE (getFullYear(end) - getFullYear(start)) * 12
           + (getMonth(end) - getMonth(start))

totalMonths(start, end) ==
    IF isSingleMonth(start, end) THEN 1
    ELSE (getFullYear(end) - getFullYear(start)) * 12
           + (getMonth(end) - getMonth(start)) + 1

\* the for loop of the helper from iteration k on
RECURSIVE splitLoop(_, _, _, _, _, _)
splitLoop(k, total, currentYear, currentMonth, monthlyAmount, currency) ==
    IF ~(k < total) THEN <<>>
    ELSE <<[monthKey |-> monthKeyOf(currentYear, currentMonth),
            amount |-> monthlyAmount, currency |-> currency]>>
         \o IF currentMonth + 1 > 11
            THEN splitLoop(k + 1, total, currentYear + 1, 0, monthlyAmount, currency)
            ELSE splitLoop(k + 1, total, currentYear, currentMonth + 1,
                           monthlyAmount, currency)

\* splitExpenseByMonths testing the period before the linked flight
splitExpenseByMonthsPeriodFirst(expense) ==
    LET amount == amountOf(expense)
        currency == currencyOf(expense)
        periodStart == expense.exp_period_start
        periodEnd == expense.exp_period_end
    IN  IF periodStart # NullDate /\ periodEnd # NullDate
        THEN LET total == totalMonths(periodStart, periodEnd)
                 monthlyAmount ==
                     IF total > 0 THEN RDiv(amount, RInt(total)) ELSE amount
             IN  splitLoop(0, total, getFullYear(periodStart),
                           getMonth(periodStart), monthlyAmount, currency)
        ELSE IF hasFlightDate(expense)
        THEN <<[monthKey |-> monthKeyOf(getFullYear(expense.flt_date),
                                        getMonth(expense.flt_date)),
                amount |-> amount, currency |-> currency]>>
        ELSE <<[monthKey |-> monthKeyOf(getFullYear(createdDate(expense)),
                                        getMonth(createdDate(expense))),
                amount |-> amount, currency |-> currency]>>

splitExpenseByMonths(expense) ==
    LET amount == amountOf(expense)
        currency == currencyOf(expense)
        periodStart == expense.exp_period_start
        periodEnd == expense.exp_period_end
    IN  IF hasFlightDate(expense)
        THEN <<[monthKey |-> monthKeyOf(getFullYear(expense.flt_date),
                                        getMonth(expense.flt_date)),
                amount |-> amount, currency |-> currency]>>
        ELSE IF periodStart # NullDate /\ periodEnd # NullDate
        THEN LET total == totalMonths(periodStart, periodEnd)
                 monthlyAmount ==
                     IF total > 0 THEN RDiv(amount, RInt(total)) ELSE amount
             IN  splitLoop(0, total, getFullYear(periodStart),
                           getMonth(periodStart), monthlyAmount, currency)
        ELSE <<[monthKey |-> monthKeyOf(getFullYear(createdDate(expense)),
                                        getMonth(createdDate(expense))),
                amount |-> amount, currency |-> currency]>>

---------------------------------------------------------------------------
(* Period splitter: the inline copy used for regular expenses.             *)

\* the for loop of the inline copy from iteration k on
RECURSIVE monthKeysLoop(_, _, _, _)
monthKeysLoop(k, total, currentYear, currentMonth) ==
    IF ~(k < total) THEN <<>>
    ELSE <<monthKeyOf(currentYear, currentMonth)>>
         \o IF currentMonth + 1 > 11
            THEN monthKeysLoop(k + 1, total, currentYear + 1, 0)
            ELSE monthKeysLoop(k + 1, total, currentYear, currentMonth + 1)

regularMonthKeys(expense) ==
    LET periodStart == expense.exp_period_start
        periodEnd == expense.exp_period_end
    IN  IF hasFlightDate(expense)
        THEN <<monthKeyOf(getFullYear(expense.flt_date), getMonth(expense.flt_date))>>
        ELSE IF periodStart # NullDate /\ periodEnd # NullDate
        THEN LET startYear == getFullYear(periodStart)
                 startMonth == getMonth(periodStart)
                 endYear == getFullYear(periodEnd)
                 endMonth == getMonth(periodEnd)
                 endDay == getDate(periodEnd)
                 single ==
                     /\ endDay = 1
                     /\ \/ (endMonth = (startMonth + 1) % 12 /\ endYear = startYear)
                        \/ (endMonth = 0 /\ endYear = startYear + 1)
                 total == IF single THEN 1
                          ELSE (endYear - startYear) * 12 + (endMonth - startMonth) + 1
             IN  monthKeysLoop(0, total, startYear, startMonth)
        ELSE <<monthKeyOf(getFullYear(createdDate(expense)),
                          getMonth(createdDate(expense)))>>

\* regularSplit adding the whole amount to every month of the period
regularSplitWholeAmount(expense) ==
    LET monthKeys == regularMonthKeys(expense)
    IN  [k \in 1..Len(monthKeys) |->
            [monthKey |-> monthKeys[k], amount |-> amountOf(expense),
             currency |-> currencyOf(expense)]]

\* the (month, amount) pairs the accumulation loop of a regular expense adds
regularSplit(expense) ==
    LET monthKeys == regularMonthKeys(expense)
        total == IF Len(monthKeys) = 0 THEN 1 ELSE Len(monthKeys)
        monthlyAmount ==
            IF total > 0 THEN RDiv(amountOf(expense), RInt(total))
            ELSE amountOf(expense)
    IN  [k \in 1..Len(monthKeys) |->
            [monthKey |-> monthKeys[k], amount |-> monthlyAmount,
             currency |-> currencyOf(expense)]]

---------------------------------------------------------------------------
(* Accumulation of one expense (the body of filteredExpenses.forEach).     *)

ZeroCell == [USD |-> RZero, AED |-> RZero]

\* monthData[monthKey] || { USD: 0, AED: 0 }
cellAt(cells, monthKey) ==
    IF monthKey \in DOMAIN cells THEN cells[monthKey] ELSE ZeroCell

\* cells with cells[monthKey] = cell
setCell(cells, monthKey, cell) ==
    [m \in DOMAIN cells \cup {monthKey} |->
        IF m = monthKey THEN cell ELSE cells[m]]

\* expense.invoice_types?.name || expense.exp_invoice_type || '', lowered and trimmed
invoiceTypeNameLower(expense) ==
    trim(toLowerCase(IF expense.invoice_types # <<>> THEN expense.invoice_types
                     ELSE expense.exp_invoice_type))

\* expense.exp_category || 'expense'
expCategory(expense) ==
    IF expense.exp_category = "" THEN "expense" ELSE expense.exp_category

isCreditNote(expense) ==
    \/ expCategory(expense) = "income_credit_note"
    \/ /\ includes(invoiceTypeNameLower(expense), kw.credit)
       /\ includes(invoiceTypeNameLower(expense), kw.note)

isCharterProfit(expense) ==
    \/ expCategory(expense) = "income_charter_profit"
    \/ /\ includes(invoiceTypeNameLower(expense), kw.charter)
       /\ includes(invoiceTypeNameLower(expense), kw.profit)

\* addIncomeAmount filling only the column of the expense's own currency
addIncomeAmountNativeOnly(cell, amount, currency) ==
    IF currency = "AED"
    THEN [USD |-> cell.USD, AED |-> RAdd(cell.AED, amount)]
    ELSE [USD |-> RAdd(cell.USD, amount), AED |-> cell.AED]

\* the currency branches of the income loop applied to one cell
addIncomeAmount(cell, amount, currency) ==
    IF currency = "USD"
    THEN [USD |-> RAdd(cell.USD, amount),
          AED |-> RAdd(cell.AED, convertCurrency(amount, "USD", "AED"))]
    ELSE IF currency = "AED"
    THEN [USD |-> RAdd(cell.USD, convertCurrency(amount, "AED", "USD")),
          AED |-> RAdd(cell.AED, amount)]
    ELSE IF currency = "EUR"
    THEN [USD |-> RAdd(cell.USD, convertCurrency(amount, "EUR", "USD")),
          AED |-> RAdd(cell.AED, convertCurrency(amount, "EUR", "AED"))]
    ELSE [USD |-> RAdd(cell.USD, convertCurrency(amount, currency, "USD")),
          AED |-> RAdd(cell.AED, convertCurrency(amount, currency, "AED"))]

\* addCategoryAmount with an unknown currency added as it is to both columns
addCategoryAmountUnknownRaw(cell, monthlyAmount, currency) ==
    IF currency = "USD"
    THEN [USD |-> RAdd(cell.USD, monthlyAmount),
          AED |-> RAdd(cell.AED, convertCurrency(monthlyAmount, "USD", "AED"))]
    ELSE IF currency = "AED"
    THEN [USD |-> RAdd(cell.USD, convertCurrency(monthlyAmount, "AED", "USD")),
          AED |-> RAdd(cell.AED, monthlyAmount)]
    ELSE IF currency = "EUR"
    THEN [USD |-> RAdd(cell.USD, convertCurrency(monthlyAmount, "EUR", "USD")),
          AED |-> RAdd(cell.AED, convertCurrency(monthlyAmount, "EUR", "AED"))]
    ELSE [USD |-> RAdd(cell.USD, monthlyAmount),
          AED |-> RAdd(cell.AED, monthlyAmount)]

\* the currency branches of the category loop applied to one cell
addCategoryAmount(cell, monthlyAmount, currency) ==
    IF currency = "USD"
    THEN [USD |-> RAdd(cell.USD, monthlyAmount),
          AED |-> RAdd(cell.AED, convertCurrency(monthlyAmount, "USD", "AED"))]
    ELSE IF currency = "AED"
    THEN [USD |-> RAdd(cell.USD, convertCurrency(monthlyAmount, "AED", "USD")),
          AED |-> RAdd(cell.AED, monthlyAmount)]
    ELSE IF currency = "EUR"
    THEN [USD |-> RAdd(cell.USD, convertCurrency(monthlyAmount, "EUR", "USD")),
          AED |-> RAdd(cell.AED, convertCurrency(monthlyAmount, "EUR", "AED"))]
    ELSE [USD |-> RAdd(cell.USD, convertCurrency(monthlyAmount, currency, "USD")),
          AED |-> RAdd(cell.AED, convertCurrency(monthlyAmount, currency, "AED"))]

\* the income loop over the splitter's entries from entry k on
RECURSIVE addIncomeMonths(_, _, _)
addIncomeMonths(cells, entries, k) ==
    IF k > Len(entries) THEN cells
    ELSE addIncomeMonths(
             setCell(cells, entries[k].monthKey,
                     addIncomeAmount(cellAt(cells, entries[k].monthKey),
                                     entries[k].amount, entries[k].currency)),
             entries, k + 1)

\* the category loop over the month keys from entry k on
RECURSIVE addCategoryMonths(_, _, _)
addCategoryMonths(cells, entries, k) ==
    IF k > Len(entries) THEN cells
    ELSE addCategoryMonths(
             setCell(cells, entries[k].monthKey,
                     addCategoryAmount(cellAt(cells, entries[k].monthKey),
                                       entries[k].amount, entries[k].currency)),
             entries, k + 1)

monthKeysOf(entries) == { entries[k].monthKey : k \in 1..Len(entries) }

\* group[finalCategory] = {} when absent, then the category loop
addToGroup(group, finalCategory, entries) ==
    IF \E k \in 1..Len(group) : group[k].category = finalCategory
    THEN [k \in 1..Len(group) |->
            IF group[k].category = finalCategory
            THEN [category |-> finalCategory,
                  cells |-> addCategoryMonths(group[k].cells, entries, 1)]
            ELSE group[k]]
    ELSE Append(group, [category |-> finalCategory,
                        cells |-> addCategoryMonths(<<>>, entries, 1)])

\* the accumulators before the first expense
emptyAccumulators ==
    [categoryGroups |-> [nonFlight |-> <<>>, flight |-> <<>>],
     incomeItems |-> [creditNote |-> <<>>, charterProfit |-> <<>>],
     allMonthsSet |-> {}]

\* what happens to an income item
processIncome(acc, expense) ==
    LET incomeType == IF isCreditNote(expense) THEN "creditNote" ELSE "charterProfit"
        entries == splitExpenseByMonths(expense)
    IN  [acc EXCEPT
            !.incomeItems[incomeType] = addIncomeMonths(@, entries, 1),
            !.allMonthsSet = @ \cup monthKeysOf(entries)]

\* what happens to a classified regular expense
processRegular(acc, expense, showSubcategories) ==
    LET baseCategory == getBaseExpenseCategory(expense)
        displayCategory ==
            IF showSubcategories THEN getExpenseCategory(expense) ELSE baseCategory
        finalCategory ==
            IF displayCategory # NoCategory THEN displayCategory ELSE baseCategory
        source == IF isNonFlightExpense(expense) THEN "nonFlight" ELSE "flight"
        entries == regularSplit(expense)
    IN  [acc EXCEPT
            !.categoryGroups[source] = addToGroup(@, finalCategory, entries),
            !.allMonthsSet = @ \cup monthKeysOf(entries)]

\* processExpense without the return that ends the income branch
processExpenseFallThrough(acc, expense, showSubcategories) ==
    LET afterIncome ==
            IF isCreditNote(expense) \/ isCharterProfit(expense)
            THEN processIncome(acc, expense)
            ELSE acc
    IN  IF getBaseExpenseCategory(expense) = NoCategory THEN afterIncome
        ELSE processRegular(afterIncome, expense, showSubcategories)

\* one call of the forEach callback
processExpense(acc, expense, showSubcategories) ==
    IF isCreditNote(expense) \/ isCharterProfit(expense)
    THEN processIncome(acc, expense)
    ELSE IF getBaseExpenseCategory(expense) = NoCategory THEN acc
    ELSE processRegular(acc, expense, showSubcategories)

\* the forEach loop over the whole list
RECURSIVE processAll(_, _, _, _)
processAll(acc, list, k, showSubcategories) ==
    IF k > Len(list) THEN acc
    ELSE processAll(processExpense(acc, list[k], showSubcategories),
                    list, k + 1, showSubcategories)

---------------------------------------------------------------------------
(* The grid: month columns, row order, rows.                               *)

\* Array.from(set).sort(): the keys of a set in ascending order
RECURSIVE sortedKeys(_)
sortedKeys(set) ==
    IF set = {} THEN <<>>
    ELSE LET least == CHOOSE m \in set : \A n \in set : m <= n
         IN  <<least>> \o sortedKeys(set \ {least})

\* filteredMonthsOf keeping every year whatever the year filter says
filteredMonthsOfEveryYear(monthsSet, yearFilter) == sortedKeys(monthsSet)

\* the months of the report
filteredMonthsOf(monthsSet, yearFilter) ==
    LET allMonths == sortedKeys(monthsSet)
        currentYear == getFullYear(now)
        InYear(monthKey) == yearOfKey(monthKey) = currentYear
    IN  IF yearFilter = "current" THEN SelectSeq(allMonths, InYear) ELSE allMonths

CATEGORY_GROUPS ==
    [group1 |-> <<cat.CAMO_and_Management, cat.Flight_planning, cat.Subscriptions,
                  cat.Maintenance, cat.Insurance_charge, cat.Crew>>,
     group2 |-> <<cat.FalconCare, cat.Honeywell>>,
     group3 |-> <<cat.Ground_handling, cat.Fuel, cat.Navigation_charges,
                  cat.Overfly_charges, cat.Catering, cat.Other_charges,
                  cat.Disbursement_fee>>]

getCategorySortOrder(category) ==
    LET allCategories ==
            CATEGORY_GROUPS.group1 \o CATEGORY_GROUPS.group2 \o CATEGORY_GROUPS.group3
    IN  IF \E k \in 1..Len(allCategories) : allCategories[k] = category
        THEN (CHOOSE k \in 1..Len(allCategories) : allCategories[k] = category) - 1
        ELSE 999

\* category.split(' - ')[0]
baseOfLabel(category) ==
    LET hits == { k \in 1..(Len(category) - Len(sep) + 1) :
                    SubSeq(category, k, k + Len(sep) - 1) = sep }
    IN  IF hits = {} THEN category
        ELSE SubSeq(category, 1, (CHOOSE k \in hits : \A j \in hits : k <= j) - 1)

\* collation order of the characters of a label: blank, punctuation, digits, letters
Collation ==
    <<" ", "-", "0", "1", "2", "3", "4", "5", "6", "7", "8", "9">> \o LowerChars

primaryWeight(c) ==
    LET l == LowerChar(c)
    IN  IF \E k \in 1..Len(Collation) : Collation[k] = l
        THEN CHOOSE k \in 1..Len(Collation) : Collation[k] = l
        ELSE Len(Collation) + 1

\* -1, 0 or 1 as a sorts before, with or after b at the primary level
RECURSIVE comparePrimary(_, _)
comparePrimary(a, b) ==
    IF a = <<>> /\ b = <<>> THEN 0
    ELSE IF a = <<>> THEN -1
    ELSE IF b = <<>> THEN 1
    ELSE IF primaryWeight(Head(a)) < primaryWeight(Head(b)) THEN -1
    ELSE IF primaryWeight(Head(a)) > primaryWeight(Head(b)) THEN 1
    ELSE comparePrimary(Tail(a), Tail(b))

\* the case level: at the first difference the lower-case letter sorts first
RECURSIVE compareCase(_, _)
compareCase(a, b) ==
    IF a = <<>> \/ b = <<>> THEN 0
    ELSE IF Head(a) = Head(b) THEN compareCase(Tail(a), Tail(b))
    ELSE IF LowerChar(Head(a)) = Head(a) THEN -1 ELSE 1

localeCompare(a, b) ==
    IF comparePrimary(a, b) # 0 THEN comparePrimary(a, b) ELSE compareCase(a, b)

\* compareCategories looking the full label up in the order, subtype included
compareCategoriesFullLabel(a, b) ==
    LET orderA == getCategorySortOrder(a.category)
        orderB == getCategorySortOrder(b.category)
    IN  IF orderA = orderB THEN localeCompare(a.category, b.category)
        ELSE orderA - orderB

\* the comparator handed to allCategories.sort
compareCategories(a, b) ==
    LET orderA == getCategorySortOrder(baseOfLabel(a.category))
        orderB == getCategorySortOrder(baseOfLabel(b.category))
    IN  IF orderA = orderB THEN localeCompare(a.category, b.category)
        ELSE orderA - orderB

\* insert row into an already sorted list, after the rows it does not precede
RECURSIVE insertSorted(_, _)
insertSorted(sorted, row) ==
    IF sorted = <<>> THEN <<row>>
    ELSE IF compareCategories(row, Head(sorted)) < 0 THEN <<row>> \o sorted
    ELSE <<Head(sorted)>> \o insertSorted(Tail(sorted), row)

\* Array.prototype.sort (stable) with compareCategories
RECURSIVE sortCategories(_)
sortCategories(list) ==
    IF list = <<>> THEN <<>>
    ELSE insertSorted(sortCategories(SubSeq(list, 1, Len(list) - 1)), list[Len(list)])

\* the keys of both groups, in insertion order, then sorted
allCategoriesOf(groups) ==
    sortCategories(
        [k \in 1..Len(groups.nonFlight) |->
            [category |-> groups.nonFlight[k].category, source |-> "nonFlight"]]
        \o [k \in 1..Len(groups.flight) |->
            [category |-> groups.flight[k].category, source |-> "flight"]])

\* categoryGroups[source][category]
categoryData(groups, entry) ==
    LET group == groups[entry.source]
    IN  group[CHOOSE k \in 1..Len(group) : group[k].category = entry.category].cells

\* rowValues pushing the USD cell of every month only
RECURSIVE rowValuesUSDOnly(_, _)
rowValuesUSDOnly(cells, filteredMonths) ==
    IF filteredMonths = <<>> THEN <<>>
    ELSE <<cellAt(cells, Head(filteredMonths)).USD>>
         \o rowValuesUSDOnly(cells, Tail(filteredMonths))

\* the two numeric cells of every month for one row
RECURSIVE rowValues(_, _)
rowValues(cells, filteredMonths) ==
    IF filteredMonths = <<>> THEN <<>>
    ELSE <<cellAt(cells, Head(filteredMonths)).USD,
           cellAt(cells, Head(filteredMonths)).AED>>
         \o rowValues(cells, Tail(filteredMonths))

MonthShort == <<"Jan", "Feb", "Mar", "Apr", "May", "Jun",
                "Jul", "Aug", "Sep", "Oct", "Nov", "Dec">>

\* new Date(year, month - 1).toLocaleDateString('en-US', {month: 'short', year: 'numeric'})
monthName(monthKey) ==
    [month |-> MonthShort[monthKey % 100], year |-> yearOfKey(monthKey)]

RECURSIVE headerRow1Cells(_)
headerRow1Cells(filteredMonths) ==
    IF filteredMonths = <<>> THEN <<>>
    ELSE <<monthName(Head(filteredMonths)), "">> \o headerRow1Cells(Tail(filteredMonths))

RECURSIVE headerRow2Cells(_)
headerRow2Cells(filteredMonths) ==
    IF filteredMonths = <<>> THEN <<>>
    ELSE <<"USD", "AED">> \o headerRow2Cells(Tail(filteredMonths))

\* the inner loop of the Total row for one month, from category k on
RECURSIVE sumCategories(_, _, _, _)
sumCategories(groups, allCategories, monthKey, k) ==
    IF k > Len(allCategories) THEN ZeroCell
    ELSE LET monthData == cellAt(categoryData(groups, allCategories[k]), monthKey)
             rest == sumCategories(groups, allCategories, monthKey, k + 1)
         IN  [USD |-> RAdd(monthData.USD, rest.USD),
              AED |-> RAdd(monthData.AED, rest.AED)]

\* totalOfMonth with the Charter profit netted into the Total as well
totalOfMonthNetOfCharter(acc, allCategories, monthKey) ==
    LET sum == sumCategories(acc.categoryGroups, allCategories, monthKey, 1)
        creditNoteData == cellAt(acc.incomeItems.creditNote, monthKey)
        charterProfitData == cellAt(acc.incomeItems.charterProfit, monthKey)
    IN  [USD |-> RAdd(RSub(sum.USD, creditNoteData.USD), charterProfitData.USD),
         AED |-> RAdd(RSub(sum.AED, creditNoteData.AED), charterProfitData.AED)]

\* totalOfMonth with the Credit note taken off the USD column only
totalOfMonthCreditOffUSD(acc, allCategories, monthKey) ==
    LET sum == sumCategories(acc.categoryGroups, allCategories, monthKey, 1)
        creditNoteData == cellAt(acc.incomeItems.creditNote, monthKey)
    IN  [USD |-> RSub(sum.USD, creditNoteData.USD), AED |-> sum.AED]

\* totalUSD and totalAED of one month
totalOfMonth(acc, allCategories, monthKey) ==
    LET sum == sumCategories(acc.categoryGroups, allCategories, monthKey, 1)
        creditNoteData == cellAt(acc.incomeItems.creditNote, monthKey)
    IN  [USD |-> RSub(sum.USD, creditNoteData.USD),
         AED |-> RSub(sum.AED, creditNoteData.AED)]

RECURSIVE totalRowValues(_, _, _)
totalRowValues(acc, allCategories, filteredMonths) ==
    IF filteredMonths = <<>> THEN <<>>
    ELSE <<totalOfMonth(acc, allCategories, Head(filteredMonths)).USD,
           totalOfMonth(acc, allCategories, Head(filteredMonths)).AED>>
         \o totalRowValues(acc, allCategories, Tail(filteredMonths))

\* the array of arrays handed to XLSX.utils.aoa_to_sheet
buildData(acc, filteredMonths) ==
    LET allCategories == allCategoriesOf(acc.categoryGroups)
    IN  << <<"Category">> \o headerRow1Cells(filteredMonths),
           <<"">> \o headerRow2Cells(filteredMonths) >>
        \o [k \in 1..Len(allCategories) |->
              <<allCategories[k].category>>
              \o rowValues(categoryData(acc.categoryGroups, allCategories[k]),
                           filteredMonths)]
        \o << <<cat.Credit_note>> \o rowValues(acc.incomeItems.creditNote, filteredMonths),
              <<cat.Total>> \o totalRowValues(acc, allCategories, filteredMonths),
              <<cat.Charter_profit>>
              \o rowValues(acc.incomeItems.charterProfit, filteredMonths) >>

\* respond without the test for an empty list of months
respondWithAnySheet(acc, yearFilter) ==
    [status |-> 200, error |-> "",
     data |-> buildData(acc, filteredMonthsOf(acc.allMonthsSet, yearFilter))]

\* the answer of the handler once the accumulators are complete
respond(acc, yearFilter) ==
    LET filteredMonths == filteredMonthsOf(acc.allMonthsSet, yearFilter)
    IN  IF Len(filteredMonths) = 0
        THEN [status |-> 404, error |-> "No data available for the selected period",
              data |-> <<>>]
        ELSE [status |-> 200, error |-> "", data |-> buildData(acc, filteredMonths)]

---------------------------------------------------------------------------
(* Inputs of the model.                                                    *)

Years == (october2025.y - 1)..(october2025.y + YearsAfter)

Days == {1, MidDay}

Dates == [y : Years, m : 1..12, d : Days]

\* a row of the expenses table with nothing filled in
BlankExpense ==
    [id |-> 0, exp_type |-> <<>>, exp_subtype |-> <<>>, exp_amount |-> AmountUnit,
     exp_currency |-> "USD", exp_period_start |-> NullDate,
     exp_period_end |-> NullDate, exp_flight |-> 0, flt_date |-> NullDate,
     exp_invoice |-> 0, exp_invoice_type |-> <<>>, invoice_types |-> <<>>,
     exp_place |-> "", exp_category |-> "", created_at |-> NullDate]

\* the rows come back ordered by id, descending
withIds(rows) == [k \in 1..Len(rows) |-> [rows[k] EXCEPT !.id = Len(rows) - k + 1]]

Snapshots(Rows) ==
    { withIds(rows) : rows \in UNION { [1..n -> Rows] : n \in 0..MaxExpenses } }

\* the accumulators of the running request, as the operators take them
accumulators ==
    [categoryGroups |-> categoryGroups, incomeItems |-> incomeItems,
     allMonthsSet |-> allMonthsSet]

NoResponse == [status |-> 0, error |-> "", data |-> <<>>]

\* no helper is applied on its own while a request runs
NoCall == [fn |-> "none"]

\* no second request is in flight
NoPeer == [pc |-> "none"]

\* the state in which a request with the given inputs arrives
Arrives(snapshot, options, today) ==
    /\ expenses = snapshot
    /\ opts = options
    /\ now = today
    /\ pc = "start"
    /\ filteredExpenses = <<>>
    /\ idx = 0
    /\ categoryGroups = emptyAccumulators.categoryGroups
    /\ incomeItems = emptyAccumulators.incomeItems
    /\ allMonthsSet = emptyAccumulators.allMonthsSet
    /\ response = NoResponse
    /\ months = <<>>
    /\ call = NoCall
    /\ peer = NoPeer
    /\ table = <<>>

---------------------------------------------------------------------------
(* The handler of GET /api/expenses/export-excel, step by step.            *)

\* the query has answered: an empty table ends the request
FetchExpenses ==
    /\ pc = "start"
    /\ IF Len(expenses) = 0
       THEN /\ response' = [status |-> 404, error |-> "No expenses found", data |-> <<>>]
            /\ pc' = "done"
       ELSE /\ response' = response
            /\ pc' = "fetched"
    /\ UNCHANGED <<expenses, opts, now, filteredExpenses, idx, categoryGroups,
                   incomeItems, allMonthsSet, months, call,
                   peer, table>>

FilterExpenses ==
    /\ pc = "fetched"
    /\ filteredExpenses' = applyATSFilter(expenses, opts.reportForATS)
    /\ pc' = "loop"
    /\ UNCHANGED <<expenses, opts, now, idx, categoryGroups, incomeItems,
                   allMonthsSet, response, months, call,
                   peer, table>>

\* the forEach callback runs for the next element
ProcessExpense ==
    /\ pc = "loop"
    /\ idx < Len(filteredExpenses)
    /\ LET acc == processExpense(accumulators, filteredExpenses[idx + 1],
                                 opts.showSubcategories)
       IN  /\ categoryGroups' = acc.categoryGroups
           /\ incomeItems' = acc.incomeItems
           /\ allMonthsSet' = acc.allMonthsSet
    /\ idx' = idx + 1
    /\ UNCHANGED <<expenses, opts, now, pc, filteredExpenses, response, months,
                   call,
                   peer, table>>

\* after the loop: the months, the rows and the answer
BuildReport ==
    /\ pc = "loop"
    /\ idx = Len(filteredExpenses)
    /\ response' = respond(accumulators, opts.yearFilter)
    /\ pc' = "done"
    /\ UNCHANGED <<expenses, opts, now, filteredExpenses, idx, categoryGroups,
                   incomeItems, allMonthsSet, months, call,
                   peer, table>>

Next == FetchExpenses \/ FilterExpenses \/ ProcessExpense \/ BuildReport

---------------------------------------------------------------------------
(* The period splitter on its own.                                         *)

SplitHelper ==
    /\ pc = "start"
    /\ months' = splitExpenseByMonths(expenses[1])
    /\ pc' = "helper"
    /\ UNCHANGED <<expenses, opts, now, filteredExpenses, idx, categoryGroups,
                   incomeItems, allMonthsSet, response, call,
                   peer, table>>

SplitInline ==
    /\ pc = "start"
    /\ months' = regularSplit(expenses[1])
    /\ pc' = "inline"
    /\ UNCHANGED <<expenses, opts, now, filteredExpenses, idx, categoryGroups,
                   incomeItems, allMonthsSet, response, call,
                   peer, table>>

NextSplit == SplitHelper \/ SplitInline

FlightChoices ==
    { [exp_flight |-> 0, flt_date |-> NullDate],
      [exp_flight |-> 7, flt_date |-> NullDate],
      [exp_flight |-> 7, flt_date |-> [y |-> october2025.y, m |-> 2, d |-> MidDay]] }

CreatedChoices == { NullDate, [y |-> october2025.y - 1, m |-> 5, d |-> MidDay] }

SplitInputs ==
    { [BlankExpense EXCEPT !.id = 1, !.exp_type = cat.Fuel,
                           !.exp_period_start = ps, !.exp_period_end = pe,
                           !.exp_flight = f.exp_flight, !.flt_date = f.flt_date,
                           !.created_at = c] :
        ps \in Dates \cup {NullDate}, pe \in Dates \cup {NullDate},
        f \in FlightChoices, c \in CreatedChoices }

InitSplit ==
    \E e \in SplitInputs :
        Arrives(<<e>>, [yearFilter |-> "all", showSubcategories |-> FALSE,
                        reportForATS |-> FALSE],
                [y |-> october2025.y, m |-> 11, d |-> MidDay])

SpecSplit == InitSplit /\ [][NextSplit]_vars

---------------------------------------------------------------------------
(* Vocabulary of the properties of the period splitter.                    *)

\* the expense the splitter ran on, once it has run
SplitDone == pc \in {"helper", "inline"}

SplitExpense == expenses[1]

\* months counted from year 0, and the key of such a month
monthIndex(date) == date.y * 12 + (date.m - 1)

keyOfIndex(index) == (index \div 12) * 100 + (index % 12) + 1

keyOfDate(date) == keyOfIndex(monthIndex(date))

hasPeriod(expense) ==
    expense.exp_period_start # NullDate /\ expense.exp_period_end # NullDate

\* the period rule applies: both period fields, no linked flight date
PeriodCase(expense) == hasPeriod(expense) /\ ~hasFlightDate(expense)

\* section 3: when both are present, period_end is strictly after period_start
WellFormedPeriod(expense) ==
    getTime(expense.exp_period_start) < getTime(expense.exp_period_end)

\* section 4.3: period_end is exactly the first day of the month right after
\* period_start's month
SpecSingleMonth(expense) ==
    /\ expense.exp_period_end.d = 1
    /\ monthIndex(expense.exp_period_end) = monthIndex(expense.exp_period_start) + 1

\* section 4.3: totalMonths
SpecTotalMonths(expense) ==
    IF SpecSingleMonth(expense) THEN 1
    ELSE (expense.exp_period_end.y - expense.exp_period_start.y) * 12
           + (expense.exp_period_end.m - expense.exp_period_start.m) + 1

EmittedAmounts == [k \in 1..Len(months) |-> months[k].amount]

EmittedKeys == { months[k].monthKey : k \in 1..Len(months) }

\* the entries are one per consecutive month from period_start's month on
ConsecutiveFromStart(expense) ==
    \A k \in 1..Len(months) :
        months[k].monthKey = keyOfIndex(monthIndex(expense.exp_period_start) + k - 1)

---------------------------------------------------------------------------
(* C1: period split conservation.  For every expense with both period      *)
(* fields (period_end after period_start, no linked flight date) the       *)
(* emitted amounts sum to the expense's amount and the number of entries   *)
(* is totalMonths as section 4.3 defines it.  The code breaks the count:   *)
(* it takes every period that ends on 1 January of the following year for  *)
(* a single month (see C3).                                                *)
C1_PeriodSplitConservation ==
    (SplitDone /\ PeriodCase(SplitExpense) /\ WellFormedPeriod(SplitExpense))
        => /\ RSum(EmittedAmounts) = amountOf(SplitExpense)
           /\ Len(months) = SpecTotalMonths(SplitExpense)

(* C2: single-month encoding.  A period from the first day of month M to   *)
(* the first day of the month right after M (December to January           *)
(* included) yields exactly one entry: month M with the full amount.       *)
C2_SingleMonthEncoding ==
    (SplitDone /\ PeriodCase(SplitExpense)
       /\ SplitExpense.exp_period_start.d = 1 /\ SpecSingleMonth(SplitExpense))
        => /\ Len(months) = 1
           /\ months[1].monthKey = keyOfDate(SplitExpense.exp_period_start)
           /\ months[1].amount = amountOf(SplitExpense)

\* C2's case: the helper has split a December-to-January period
C2_Witness ==
    /\ pc = "helper"
    /\ PeriodCase(SplitExpense)
    /\ SplitExpense.exp_period_start = [y |-> october2025.y, m |-> 12, d |-> 1]
    /\ SplitExpense.exp_period_end = [y |-> october2025.y + 1, m |-> 1, d |-> 1]
    /\ EmittedKeys = {(october2025.y) * 100 + 12}

(* C3: outside the single-month encoding (period_end is not the first day  *)
(* of the month right after period_start's month) the splitter emits       *)
(* (endYear - startYear) * 12 + (endMonth - startMonth) + 1 entries, one   *)
(* per consecutive month from period_start's month.  The code emits one    *)
(* entry for March 2025 .. 1 January 2026, where eleven are due.           *)
C3_MultiMonthCount ==
    (SplitDone /\ PeriodCase(SplitExpense) /\ WellFormedPeriod(SplitExpense)
       /\ ~SpecSingleMonth(SplitExpense))
        => /\ Len(months) = SpecTotalMonths(SplitExpense)
           /\ ConsecutiveFromStart(SplitExpense)

(* C4 as the spec states it: period_end is exclusive, so every emitted     *)
(* month is strictly before the month containing period_end (stated here   *)
(* for month-granular periods whose end is after their start).             *)
C4_PeriodEndExclusive ==
    (SplitDone /\ PeriodCase(SplitExpense) /\ WellFormedPeriod(SplitExpense)
       /\ SplitExpense.exp_period_start.d = 1 /\ SplitExpense.exp_period_end.d = 1)
        => \A key \in EmittedKeys : key < keyOfDate(SplitExpense.exp_period_end)

(* C4 amended: for a period whose start is not after its end, no emitted   *)
(* month is after the month containing period_end; that month gets no      *)
(* share when period_end is the first day of the month right after         *)
(* period_start's month, and it does get a share (the last one) unless     *)
(* period_end is the first day of the following month or of the following  *)
(* January.                                                                *)
C4_PeriodEndInclusive ==
    (SplitDone /\ PeriodCase(SplitExpense)
       /\ getTime(SplitExpense.exp_period_start) <= getTime(SplitExpense.exp_period_end))
        => /\ \A key \in EmittedKeys : key <= keyOfDate(SplitExpense.exp_period_end)
           /\ SpecSingleMonth(SplitExpense)
                => keyOfDate(SplitExpense.exp_period_end) \notin EmittedKeys
           /\ ~( /\ SplitExpense.exp_period_end.d = 1
                 /\ \/ SpecSingleMonth(SplitExpense)
                    \/ /\ SplitExpense.exp_period_end.m = 1
                       /\ SplitExpense.exp_period_end.y
                            = SplitExpense.exp_period_start.y + 1 )
                => /\ Len(months) >= 1
                   /\ months[Len(months)].monthKey
                        = keyOfDate(SplitExpense.exp_period_end)

\* C4's case: a three-month period whose last share lands in period_end's month
C4_Witness ==
    /\ pc = "helper"
    /\ PeriodCase(SplitExpense)
    /\ SplitExpense.exp_period_start = [y |-> october2025.y, m |-> 1, d |-> 1]
    /\ SplitExpense.exp_period_end = [y |-> october2025.y, m |-> 3, d |-> 1]
    /\ Len(months) = 3
    /\ months[3].monthKey = (october2025.y) * 100 + 3

(* C6: attribution precedence.  A linked flight with a date wins: one      *)
(* entry, the flight's month, the full amount, even when both period       *)
(* fields are set; otherwise both period fields give the period split      *)
(* (equal shares in consecutive months from period_start's month);         *)
(* otherwise the full amount goes to the month of created_at, or of the    *)
(* current date when created_at is absent.                                 *)
C6_AttributionPrecedence ==
    SplitDone =>
        IF hasFlightDate(SplitExpense)
        THEN /\ Len(months) = 1
             /\ months[1].monthKey = keyOfDate(SplitExpense.flt_date)
             /\ months[1].amount = amountOf(SplitExpense)
        ELSE IF hasPeriod(SplitExpense)
        THEN /\ ConsecutiveFromStart(SplitExpense)
             /\ \A k \in 1..Len(months) :
                    RMul(months[k].amount, RInt(Len(months))) = amountOf(SplitExpense)
             /\ WellFormedPeriod(SplitExpense) => Len(months) >= 1
        ELSE /\ Len(months) = 1
             /\ months[1].monthKey =
                    keyOfDate(IF SplitExpense.created_at # NullDate
                              THEN SplitExpense.created_at ELSE now)
             /\ months[1].amount = amountOf(SplitExpense)

\* C6's case: a flight date and a period in different months, the flight wins
C6_Witness ==
    /\ SplitDone
    /\ hasFlightDate(SplitExpense)
    /\ hasPeriod(SplitExpense)
    /\ keyOfDate(SplitExpense.flt_date) # keyOfDate(SplitExpense.exp_period_start)
    /\ EmittedKeys = {keyOfDate(SplitExpense.flt_date)}

---------------------------------------------------------------------------
(* Text the modelled rows carry.                                           *)

txt ==
    [ CREW |-> <<"C", "R", "E", "W">>,
      Random_Unmapped_Label |-> <<"R", "a", "n", "d", "o", "m", " ", "U", "n", "m", "a", "p", "p", "e", "d", " ", "L", "a", "b", "e", "l">>,
      Disbursement_Fee |-> <<"D", "i", "s", "b", "u", "r", "s", "e", "m", "e", "n", "t", " ", "F", "e", "e">>,
      Jet_A1 |-> <<" ", "J", "e", "t", " ", "A", "1", " ">>,
      Credit_Note |-> <<"C", "r", "e", "d", "i", "t", " ", "N", "o", "t", "e">>,
      Charter_profit |-> <<"C", "h", "a", "r", "t", "e", "r", " ", "p", "r", "o", "f", "i", "t">>,
      Credit_note_on_charter_profit |-> <<"C", "r", "e", "d", "i", "t", " ", "n", "o", "t", "e", " ", "o", "n", " ", "c", "h", "a", "r", "t", "e", "r", " ", "p", "r", "o", "f", "i", "t">> ]

Options == [yearFilter : {"current", "all"}, showSubcategories : BOOLEAN,
            reportForATS : BOOLEAN]

\* periods of the report rows: none, and December to February over the year end
ReportPeriods ==
    { [exp_period_start |-> NullDate, exp_period_end |-> NullDate],
      [exp_period_start |-> [y |-> october2025.y, m |-> 12, d |-> 1],
       exp_period_end |-> [y |-> october2025.y + 1, m |-> 2, d |-> 1]] }

\* regular rows: a flight category, a non-flight category, an unclassified type
RegularRows ==
    { [BlankExpense EXCEPT !.exp_type = t, !.exp_subtype = txt.Jet_A1,
                           !.exp_period_start = p.exp_period_start,
                           !.exp_period_end = p.exp_period_end] :
        t \in {cat.Fuel, txt.CREW, txt.Random_Unmapped_Label}, p \in ReportPeriods }
    \cup { [BlankExpense EXCEPT !.exp_type = cat.Fuel, !.exp_currency = c,
                                !.exp_period_start = p.exp_period_start,
                                !.exp_period_end = p.exp_period_end] :
             c \in {"AED", "EUR"}, p \in ReportPeriods }

\* rows linked to an invoice whose type name or category marks an income item
IncomeRows ==
    { [BlankExpense EXCEPT !.exp_type = cat.Fuel, !.exp_invoice = 1,
                           !.exp_invoice_type = n,
                           !.exp_period_start = p.exp_period_start,
                           !.exp_period_end = p.exp_period_end] :
        n \in {txt.Credit_Note, txt.Charter_profit, txt.Credit_note_on_charter_profit},
        p \in ReportPeriods }
    \cup { [BlankExpense EXCEPT !.exp_type = txt.Random_Unmapped_Label,
                                !.exp_invoice = 1, !.exp_invoice_type = n,
                                !.exp_currency = "EUR"] :
             n \in {txt.Credit_Note, txt.Charter_profit} }
    \cup { [BlankExpense EXCEPT !.exp_type = cat.Fuel, !.exp_invoice = 1,
                                !.exp_invoice_type = txt.Charter_profit,
                                !.invoice_types = txt.Charter_profit,
                                !.exp_category = c] :
             c \in {"income_credit_note", "income_charter_profit"} }

ReportRows == RegularRows \cup IncomeRows

Init ==
    \E snapshot \in Snapshots(ReportRows), options \in Options :
        /\ ~options.reportForATS
        /\ Arrives(snapshot, options, [y |-> october2025.y, m |-> 11, d |-> MidDay])

Spec == Init /\ [][Next]_vars

---------------------------------------------------------------------------
(* Vocabulary of the properties of the report.                             *)

Produced == pc = "done" /\ response.status = 200

\* the rows of a produced grid: two headers, the categories, three summary rows
GridRows == Len(response.data)

CategoryRowCount == GridRows - 5

CreditNoteRow == response.data[GridRows - 2]

TotalRow == response.data[GridRows - 1]

CharterProfitRow == response.data[GridRows]

\* the cells of the category rows in column j, top to bottom
CategoryColumn(j) == [r \in 1..CategoryRowCount |-> response.data[r + 2][j]]

NumericColumns == 2..Len(TotalRow)

\* the forEach callback is running for filteredExpenses[idx + 1]
CallbackStep == pc = "loop" /\ idx' = idx + 1

\* the invoice type name contains both words, in any letter case
NamedWith(expense, first, second) ==
    LET name == toLowerCase(IF expense.invoice_types # <<>>
                            THEN expense.invoice_types
                            ELSE expense.exp_invoice_type)
    IN  includes(name, first) /\ includes(name, second)

NamedCreditNote(expense) == NamedWith(expense, kw.credit, kw.note)

NamedCharterProfit(expense) == NamedWith(expense, kw.charter, kw.profit)

\* the sum of one currency over all months of an income row
RECURSIVE RowSum(_, _)
RowSum(cells, currency) ==
    IF DOMAIN cells = {} THEN RZero
    ELSE LET m == CHOOSE k \in DOMAIN cells : TRUE
         IN  RAdd(cells[m][currency],
                  RowSum([k \in DOMAIN cells \ {m} |-> cells[k]], currency))

\* the step adds the expense to the given income row and to nothing else
OnlyInto(row, other, expense) ==
    /\ categoryGroups' = categoryGroups
    /\ incomeItems'[other] = incomeItems[other]
    /\ incomeItems'[row] # incomeItems[row]
    /\ RowSum(incomeItems'[row], "USD")
         = RAdd(RowSum(incomeItems[row], "USD"),
                convertCurrency(amountOf(expense), currencyOf(expense), "USD"))

---------------------------------------------------------------------------
(* C5: Total formula.  In every month column and both currency columns     *)
(* the Total cell is the sum of the category-row cells minus the Credit    *)
(* note cell; the Charter profit row is no part of it.                     *)
C5_TotalFormula ==
    Produced =>
        /\ CreditNoteRow[1] = cat.Credit_note
        /\ TotalRow[1] = cat.Total
        /\ CharterProfitRow[1] = cat.Charter_profit
        /\ \A j \in NumericColumns :
               TotalRow[j] = RSub(RSum(CategoryColumn(j)), CreditNoteRow[j])

\* C5's case: a column with a category amount, a credit note and a different Total
C5_Witness ==
    /\ Produced
    /\ \E j \in NumericColumns :
           /\ CreditNoteRow[j] # RZero
           /\ RSum(CategoryColumn(j)) # RZero
           /\ TotalRow[j] # RSum(CategoryColumn(j))

(* C7 as the spec states it: a callback step for an expense whose invoice  *)
(* type name contains "credit" and "note" changes the Credit note row      *)
(* only, and one for a name containing "charter" and "profit" changes the  *)
(* Charter profit row only; no category row changes (stated for rows whose *)
(* exp_category column is empty, as POST /api/expenses leaves it).         *)
C7_IncomeBypass ==
    [][(CallbackStep /\ filteredExpenses[idx + 1].exp_category = "") =>
         LET expense == filteredExpenses[idx + 1]
         IN  /\ NamedCreditNote(expense)
                  => OnlyInto("creditNote", "charterProfit", expense)
             /\ NamedCharterProfit(expense)
                  => OnlyInto("charterProfit", "creditNote", expense)]_vars

(* C7 amended: the Credit note test comes first.  A name with "credit"     *)
(* and "note" goes to the Credit note row only; a name with "charter" and  *)
(* "profit" goes to the Charter profit row only unless the expense is      *)
(* also a Credit note item (its name has "credit" and "note" too, or its   *)
(* exp_category is income_credit_note), and then it goes to the Credit     *)
(* note row only.  No category row changes in either case, whatever the    *)
(* type text.                                                              *)
C7_IncomeBypassCreditFirst ==
    [][CallbackStep =>
         LET expense == filteredExpenses[idx + 1]
             creditItem == NamedCreditNote(expense)
                             \/ expense.exp_category = "income_credit_note"
         IN  /\ NamedCreditNote(expense)
                  => OnlyInto("creditNote", "charterProfit", expense)
             /\ (NamedCharterProfit(expense) /\ ~creditItem)
                  => OnlyInto("charterProfit", "creditNote", expense)
             /\ (NamedCharterProfit(expense) /\ creditItem)
                  => OnlyInto("creditNote", "charterProfit", expense)]_vars

\* C7's case: a charter profit item of unclassified type has been accumulated
C7_Witness ==
    /\ pc = "loop"
    /\ idx = 1
    /\ NamedCharterProfit(filteredExpenses[1])
    /\ ~NamedCreditNote(filteredExpenses[1])
    /\ getBaseExpenseCategory(filteredExpenses[1]) = NoCategory
    /\ incomeItems.charterProfit # <<>>
    /\ incomeItems.creditNote = <<>>
    /\ categoryGroups = emptyAccumulators.categoryGroups

---------------------------------------------------------------------------
(* The report requested for ATS.                                           *)

\* periods around the cutoff: none, before it (open and closed, and in the
\* December before), exactly on it, and in the January after it
ATSPeriods ==
    { [exp_period_start |-> NullDate, exp_period_end |-> NullDate],
      [exp_period_start |-> [y |-> october2025.y, m |-> october2025.m - 1, d |-> MidDay],
       exp_period_end |-> NullDate],
      [exp_period_start |-> [y |-> october2025.y, m |-> october2025.m - 1, d |-> 1],
       exp_period_end |-> october2025],
      [exp_period_start |-> [y |-> october2025.y - 1, m |-> 12, d |-> 1],
       exp_period_end |-> [y |-> october2025.y, m |-> 1, d |-> 1]],
      [exp_period_start |-> october2025,
       exp_period_end |-> [y |-> october2025.y, m |-> october2025.m + 1, d |-> 1]],
      [exp_period_start |-> [y |-> october2025.y + YearsAfter, m |-> 1, d |-> 1],
       exp_period_end |-> NullDate] }

\* what an expense is linked to: nothing, or an invoice, a flight and a place
ATSLinks ==
    { [exp_invoice |-> 0, exp_flight |-> 0, flt_date |-> NullDate, exp_place |-> ""],
      [exp_invoice |-> 1, exp_flight |-> 7,
       flt_date |-> [y |-> october2025.y, m |-> october2025.m, d |-> MidDay],
       exp_place |-> "DXB"] }

ATSRows ==
    { [BlankExpense EXCEPT !.exp_type = t,
                           !.exp_period_start = p.exp_period_start,
                           !.exp_period_end = p.exp_period_end,
                           !.exp_invoice = l.exp_invoice,
                           !.exp_flight = l.exp_flight,
                           !.flt_date = l.flt_date,
                           !.exp_place = l.exp_place] :
        t \in {cat.Fuel, txt.Disbursement_Fee, txt.Random_Unmapped_Label},
        p \in ATSPeriods, l \in ATSLinks }

InitATS ==
    \E snapshot \in Snapshots(ATSRows) :
        Arrives(snapshot,
                [yearFilter |-> "all", showSubcategories |-> FALSE,
                 reportForATS |-> TRUE],
                [y |-> october2025.y, m |-> 11, d |-> MidDay])

SpecATS == InitATS /\ [][Next]_vars

\* the filter has run for a report requested for ATS
ATSApplied == opts.reportForATS /\ pc \in {"loop", "done"} /\ Len(expenses) > 0

InFiltered(expense) ==
    \E k \in 1..Len(filteredExpenses) : filteredExpenses[k].id = expense.id

\* a is an earlier calendar day than b
DateBefore(a, b) ==
    \/ a.y < b.y
    \/ a.y = b.y /\ a.m < b.m
    \/ a.y = b.y /\ a.m = b.m /\ a.d < b.d

StartsBeforeCutoff(expense) ==
    /\ expense.exp_period_start # NullDate
    /\ DateBefore(expense.exp_period_start, [y |-> 2025, m |-> 10, d |-> 1])

\* invoice, flight, period pair and place: each equal, or absent in both
SharesLinks(E, D) ==
    /\ E.exp_invoice = D.exp_invoice
    /\ E.exp_flight = D.exp_flight
    /\ E.exp_period_start = D.exp_period_start
    /\ E.exp_period_end = D.exp_period_end
    /\ E.exp_place = D.exp_place

\* the list without its k-th row
Without(list, k) ==
    [j \in 1..(Len(list) - 1) |-> IF j < k THEN list[j] ELSE list[j + 1]]

\* the answer of the whole handler to a request over the given rows
ReportOf(list, options) ==
    IF Len(list) = 0
    THEN [status |-> 404, error |-> "No expenses found", data |-> <<>>]
    ELSE respond(processAll(emptyAccumulators,
                            applyATSFilter(list, options.reportForATS), 1,
                            options.showSubcategories),
                 options.yearFilter)

\* neither an income item nor of any category
UnclassifiedRegular(expense) ==
    /\ ~isCreditNote(expense)
    /\ ~isCharterProfit(expense)
    /\ getBaseExpenseCategory(expense) = NoCategory

---------------------------------------------------------------------------
(* C8: an expense that is no income item and whose type classifies to null *)
(* adds nothing to the report: the answer is the one the same request      *)
(* gets over the same rows without that expense (same rows, same month     *)
(* columns, same cells, Total included).                                   *)
C8_UnclassifiedAddsNothing ==
    pc = "done" =>
        \A k \in 1..Len(expenses) :
            UnclassifiedRegular(expenses[k]) =>
                LET without == ReportOf(Without(expenses, k), opts)
                IN  /\ response.status = without.status
                    /\ response.data = without.data

---------------------------------------------------------------------------
(* C9: ATS transitivity.  With the filter applied, for every expense E     *)
(* whose period_start is before the cutoff and every Disbursement fee D    *)
(* with E's invoice, flight, period pair and place (equal, or absent in    *)
(* both), neither E nor D is in the filtered list.                         *)
C9_ATSTransitivity ==
    ATSApplied =>
        \A i, j \in 1..Len(expenses) :
            LET E == expenses[i]
                D == expenses[j]
            IN  (StartsBeforeCutoff(E) /\ isDisbursementFee(D) /\ SharesLinks(E, D))
                  => ~InFiltered(E) /\ ~InFiltered(D)

\* C9's case: a Fuel expense before the cutoff and its fee, both filtered out
C9_Witness ==
    /\ ATSApplied
    /\ \E i, j \in 1..Len(expenses) :
          /\ i # j
          /\ StartsBeforeCutoff(expenses[i])
          /\ ~isDisbursementFee(expenses[i])
          /\ expenses[i].exp_invoice # 0
          /\ isDisbursementFee(expenses[j])
          /\ SharesLinks(expenses[i], expenses[j])
          /\ ~InFiltered(expenses[i])
          /\ ~InFiltered(expenses[j])

---------------------------------------------------------------------------
(* C10: ATS cutoff rule.  With the filter applied, every expense whose     *)
(* period_start is strictly before 2025-10-01 is removed; one whose        *)
(* period_start is 2025-10-01 or later is kept; one with no period_start   *)
(* is kept unless it is a Disbursement fee (which only the second pass     *)
(* can remove).                                                            *)
C10_ATSCutoffRule ==
    ATSApplied =>
        \A k \in 1..Len(expenses) :
            LET expense == expenses[k]
            IN  IF expense.exp_period_start = NullDate
                THEN ~isDisbursementFee(expense) => InFiltered(expense)
                ELSE IF StartsBeforeCutoff(expense)
                     THEN ~InFiltered(expense)
                     ELSE InFiltered(expense)

\* C10's case: one row starting on the cutoff day kept, one before it removed
C10_Witness ==
    /\ ATSApplied
    /\ \E i, j \in 1..Len(expenses) :
          /\ expenses[i].exp_period_start = [y |-> 2025, m |-> 10, d |-> 1]
          /\ InFiltered(expenses[i])
          /\ StartsBeforeCutoff(expenses[j])
          /\ ~InFiltered(expenses[j])

---------------------------------------------------------------------------
(* The currency converter on its own.                                      *)

MaxConvert == 6

\* no request is running: the handler's variables are at rest
Idle ==
    /\ expenses = <<>>
    /\ opts = [yearFilter |-> "current", showSubcategories |-> FALSE,
               reportForATS |-> FALSE]
    /\ now = [y |-> october2025.y, m |-> 11, d |-> MidDay]
    /\ pc = "idle"
    /\ filteredExpenses = <<>>
    /\ idx = 0
    /\ categoryGroups = emptyAccumulators.categoryGroups
    /\ incomeItems = emptyAccumulators.incomeItems
    /\ allMonthsSet = emptyAccumulators.allMonthsSet
    /\ response = NoResponse
    /\ months = <<>>
    /\ peer = NoPeer
    /\ table = <<>>

handlerVars == <<expenses, opts, now, pc, filteredExpenses, idx, categoryGroups,
                 incomeItems, allMonthsSet, response, months, peer, table>>

\* amounts: whole numbers, thirds (a quarter's monthly share) and cents
ConvertAmounts ==
    { Rat(n, d) : n \in (0 - MaxConvert)..MaxConvert, d \in {1, 3, 100} }

\* exp_currency as stored: absent, the three supported codes, another code
Currencies == {"", "USD", "AED", "EUR", "GBP"}

InitConvert ==
    /\ Idle
    /\ \E amount \in ConvertAmounts, fromCurrency \in Currencies,
          toCurrency \in Currencies :
          call = [fn |-> "convertCurrency", amount |-> amount,
                  fromCurrency |-> fromCurrency, toCurrency |-> toCurrency,
                  result |-> <<>>, cell |-> <<>>]

\* convertCurrency(amount, fromCurrency, toCurrency)
ConvertThere ==
    /\ call.fn = "convertCurrency"
    /\ call.result = <<>>
    /\ call.cell = <<>>
    /\ call' = [call EXCEPT !.result =
                    <<convertCurrency(call.amount, call.fromCurrency,
                                      call.toCurrency)>>]
    /\ UNCHANGED handlerVars

\* the result converted back: convertCurrency(result, toCurrency, fromCurrency)
ConvertBack ==
    /\ call.fn = "convertCurrency"
    /\ Len(call.result) = 1
    /\ call' = [call EXCEPT !.result =
                    Append(call.result,
                           convertCurrency(call.result[1], call.toCurrency,
                                           call.fromCurrency))]
    /\ UNCHANGED handlerVars

\* the amount accumulated into a fresh cell of a category row, in the
\* expense's currency (expense.exp_currency || 'USD')
AccumulateFresh ==
    /\ call.fn = "convertCurrency"
    /\ call.result = <<>>
    /\ call.cell = <<>>
    /\ call' = [call EXCEPT !.cell =
                    <<addCategoryAmount(ZeroCell, call.amount,
                                        IF call.fromCurrency = "" THEN "USD"
                                        ELSE call.fromCurrency)>>]
    /\ UNCHANGED handlerVars

NextConvert == ConvertThere \/ ConvertBack \/ AccumulateFresh

SpecConvert == InitConvert /\ [][NextConvert]_vars

\* the rates of section 4.1, as fractions
AED_TO_USD == Rat(36735, 10000)

AED_TO_EUR == Rat(43119, 10000)

Converted == call.fn = "convertCurrency" /\ Len(call.result) >= 1

RoundTripped == call.fn = "convertCurrency" /\ Len(call.result) = 2

---------------------------------------------------------------------------
(* C11: currency round trip.  For every amount, USD to AED and back to USD *)
(* gives the amount again, and so does USD to EUR and back to USD (exact   *)
(* arithmetic with the rates 3.6735 and 4.3119).                           *)
C11_CurrencyRoundTrip ==
    (RoundTripped /\ call.fromCurrency = "USD" /\ call.toCurrency \in {"AED", "EUR"})
        => call.result[2] = call.amount

\* C11's case: a USD amount has gone to EUR, changed, and come back
C11_Witness ==
    /\ RoundTripped
    /\ call.fromCurrency = "USD"
    /\ call.toCurrency = "EUR"
    /\ call.amount = Rat(MaxConvert, 3)
    /\ call.result[1] # call.amount
    /\ call.result[2] = call.amount

Supported == {"USD", "AED", "EUR"}

\* the rule table of section 4.1 for two supported currencies
RuleTable(amount, from, to) ==
    IF from = to THEN amount
    ELSE IF from = "EUR"
    THEN IF to = "USD" THEN RDiv(RMul(amount, AED_TO_EUR), AED_TO_USD)
         ELSE RMul(amount, AED_TO_EUR)
    ELSE IF to = "EUR"
    THEN IF from = "USD" THEN RDiv(RMul(amount, AED_TO_USD), AED_TO_EUR)
         ELSE RDiv(amount, AED_TO_EUR)
    ELSE IF from = "USD" THEN RMul(amount, AED_TO_USD)
    ELSE RDiv(amount, AED_TO_USD)

---------------------------------------------------------------------------
(* C12: for every pair of the three supported currencies and every         *)
(* non-zero amount convertCurrency returns the value of the rule table of  *)
(* section 4.1; a falsy amount, from or to yields 0.                       *)
C12_ConversionTable ==
    Converted =>
        /\ (call.amount = RZero \/ call.fromCurrency = "" \/ call.toCurrency = "")
              => call.result[1] = RZero
        /\ (/\ call.amount # RZero
            /\ call.fromCurrency \in Supported
            /\ call.toCurrency \in Supported)
              => call.result[1]
                   = RuleTable(call.amount, call.fromCurrency, call.toCurrency)

\* C12's case: a non-zero EUR amount has been converted to USD
C12_Witness ==
    /\ Converted
    /\ call.amount = Rat(MaxConvert, 100)
    /\ call.fromCurrency = "EUR"
    /\ call.toCurrency = "USD"
    /\ call.result[1] # call.amount
    /\ call.result[1] = RDiv(RMul(call.amount, AED_TO_EUR), AED_TO_USD)

\* a non-empty currency code outside the supported three
Unrecognized(currency) == currency # "" /\ currency \notin Supported

AccumulatedFresh == call.fn = "convertCurrency" /\ Len(call.cell) = 1

---------------------------------------------------------------------------
(* C13: unrecognized currency fallback.  With a non-empty source currency  *)
(* outside USD, AED, EUR convertCurrency returns the amount unconverted    *)
(* for every target currency, so an expense in such a currency adds its    *)
(* raw amount to the USD and to the AED column of its cell.                *)
C13_UnrecognizedUnconverted ==
    /\ (Converted /\ Unrecognized(call.fromCurrency) /\ call.toCurrency \in Supported)
          => call.result[1] = call.amount
    /\ (AccumulatedFresh /\ Unrecognized(call.fromCurrency))
          => call.cell[1] = [USD |-> call.amount, AED |-> call.amount]

(* C13 as the code has it: an unrecognized source currency is converted as *)
(* if it were USD.  To USD the amount is returned unchanged, to AED it is  *)
(* multiplied by 3.6735, to EUR the result is 0; the expense adds its raw  *)
(* amount to the USD column and 3.6735 times it to the AED column.         *)
C13_UnrecognizedAsUSD ==
    /\ (Converted /\ Unrecognized(call.fromCurrency) /\ call.toCurrency \in Supported)
          => call.result[1]
               = IF call.toCurrency = "USD" THEN call.amount
                 ELSE IF call.toCurrency = "AED" THEN RMul(call.amount, AED_TO_USD)
                 ELSE RZero
    /\ (AccumulatedFresh /\ Unrecognized(call.fromCurrency))
          => call.cell[1] = [USD |-> call.amount,
                             AED |-> RMul(call.amount, AED_TO_USD)]

\* C13's case: an amount in an unrecognized currency has been accumulated
C13_Witness ==
    /\ AccumulatedFresh
    /\ call.fromCurrency = "GBP"
    /\ call.amount = RInt(MaxConvert)
    /\ call.cell[1].USD = call.amount
    /\ call.cell[1].AED # call.amount

---------------------------------------------------------------------------
(* The category classifier on its own.                                     *)

\* type texts that are no category name
otherTypes ==
    [ Landing_fee |-> <<"L", "a", "n", "d", "i", "n", "g", " ", "f", "e", "e">>,
      Hotel |-> <<"H", "o", "t", "e", "l">>,
      Fuel_surcharge |-> <<"F", "u", "e", "l", " ", "s", "u", "r", "c", "h", "a", "r", "g", "e">>,
      Jet_fuel |-> <<"J", "e", "t", " ", "f", "u", "e", "l">>,
      Crew_salaries |-> <<"C", "r", "e", "w", " ", "s", "a", "l", "a", "r", "i", "e", "s">>,
      Fuel_after_blank |-> <<" ", "F", "u", "e", "l">>,
      Aircraft_food |-> <<"A", "i", "r", "c", "r", "a", "f", "t", " ", "f", "o", "o", "d">>,
      CAMO |-> <<"C", "A", "M", "O">> ]

\* the fixed enumeration of the 15 categories
CategoryNames ==
    { cat.CAMO_and_Management, cat.Crew, cat.Disbursement_fee, cat.Insurance_charge,
      cat.Maintenance, cat.Subscriptions, cat.Other_charges, cat.FalconCare,
      cat.Honeywell, cat.Ground_handling, cat.Fuel, cat.Navigation_charges,
      cat.Overfly_charges, cat.Catering, cat.Flight_planning }

UpperChar(c) ==
    IF \E k \in 1..Len(LowerChars) : LowerChars[k] = c
    THEN UpperChars[CHOOSE k \in 1..Len(LowerChars) : LowerChars[k] = c]
    ELSE c

\* a text in lower case, in upper case, and with the two alternating
LowerCased(s) == [k \in 1..Len(s) |-> LowerChar(s[k])]

UpperCased(s) == [k \in 1..Len(s) |-> UpperChar(s[k])]

MixedCased(s) ==
    [k \in 1..Len(s) |-> IF k % 2 = 0 THEN UpperChar(s[k]) ELSE LowerChar(s[k])]

LetterCases(s) == {s, LowerCased(s), UpperCased(s), MixedCased(s)}

ClassifyInputs ==
    UNION { LetterCases(name) : name \in CategoryNames }
      \cup { otherTypes[f] : f \in DOMAIN otherTypes }
      \cup { <<>>, txt.Random_Unmapped_Label, txt.Jet_A1 }

InitClassify ==
    /\ Idle
    /\ \E type \in ClassifyInputs :
          call = [fn |-> "getBaseExpenseCategory", exp_type |-> type,
                  result |-> <<>>]

\* getBaseExpenseCategory(expense) for an expense of the given type
Classify ==
    /\ call.fn = "getBaseExpenseCategory"
    /\ call.result = <<>>
    /\ call' = [call EXCEPT !.result =
                    <<getBaseExpenseCategory(
                          [BlankExpense EXCEPT !.exp_type = call.exp_type])>>]
    /\ UNCHANGED handlerVars

NextClassify == Classify

SpecClassify == InitClassify /\ [][NextClassify]_vars

Classified == call.fn = "getBaseExpenseCategory" /\ Len(call.result) = 1

\* the keywords of the rules of section 4.2
RuleKeywords ==
    { kw.camo, kw.management, kw.crew, kw.disbursement, kw.insurance,
      kw.maintenance, kw.subscription, kw.falconcare, kw.falcon_care,
      kw.honeywell, kw.ground_handling, kw.groundhandling, kw.fuel,
      kw.navigation, kw.enroute, kw.overfly, kw.overflight, kw.catering,
      kw.food, kw.flight_planning, kw.flightplanning, kw.other_charges }

ContainsKeyword(type) ==
    \E word \in RuleKeywords : includes(LowerCased(type), word)

---------------------------------------------------------------------------
(* C14: classification totality.  An expense whose type is one of the 15   *)
(* category names, in any letter case, classifies to that category; an     *)
(* expense whose type contains none of the rule keywords classifies to     *)
(* null.                                                                   *)
C14_ClassificationTotality ==
    Classified =>
        /\ \A name \in CategoryNames :
              call.exp_type \in LetterCases(name) => call.result[1] = name
        /\ ~ContainsKeyword(call.exp_type) => call.result[1] = NoCategory

\* C14's case: the name of a rule that comes late, in upper case, classified
C14_Witness ==
    /\ Classified
    /\ call.exp_type = UpperCased(cat.Other_charges)
    /\ call.exp_type # cat.Other_charges
    /\ call.result[1] = cat.Other_charges

---------------------------------------------------------------------------
(* One cell of a row under a sequence of accumulations.                    *)

MaxAccumulations == 2

\* monthly amounts: nothing, a whole amount, a third of it, a cent
CellAmounts == { RZero, RInt(MaxConvert), Rat(MaxConvert, 3), Rat(1, 100) }

\* the currency the loops see: expense.exp_currency || 'USD'
CellCurrencies == Currencies \ {""}

InitCell ==
    /\ Idle
    /\ call = [fn |-> "accumulate", cell |-> ZeroCell, count |-> 0,
               row |-> "none", amount |-> RZero, currency |-> "USD"]

\* one pass of the body of the category loop over the cell
AccumulateCategory ==
    /\ call.fn = "accumulate"
    /\ call.count < MaxAccumulations
    /\ \E amount \in CellAmounts, currency \in CellCurrencies :
          call' = [call EXCEPT
                     !.cell = addCategoryAmount(call.cell, amount, currency),
                     !.count = call.count + 1, !.row = "category",
                     !.amount = amount, !.currency = currency]
    /\ UNCHANGED handlerVars

\* one pass of the body of the income loop over the cell
AccumulateIncome ==
    /\ call.fn = "accumulate"
    /\ call.count < MaxAccumulations
    /\ \E amount \in CellAmounts, currency \in CellCurrencies :
          call' = [call EXCEPT
                     !.cell = addIncomeAmount(call.cell, amount, currency),
                     !.count = call.count + 1, !.row = "income",
                     !.amount = amount, !.currency = currency]
    /\ UNCHANGED handlerVars

NextCell == AccumulateCategory \/ AccumulateIncome

SpecCell == InitCell /\ [][NextCell]_vars

\* an accumulation of (call'.amount, call'.currency) into the cell happens
AccumulationStep == call.fn = "accumulate" /\ call'.count = call.count + 1

---------------------------------------------------------------------------
(* C15: dual-currency population.  Each accumulation adds the amount       *)
(* unchanged to the column of the expense's own currency when that is USD  *)
(* or AED and the converted amount to the other column; for EUR both       *)
(* columns receive converted amounts.  So a touched cell always has both   *)
(* columns populated: its AED column is its USD column in AED.             *)
C15_DualCurrencyPopulation ==
    [][AccumulationStep =>
         LET amount == call'.amount
             native == call'.currency
             before == call.cell
             after == call'.cell
         IN  /\ native = "USD" =>
                  /\ after.USD = RAdd(before.USD, amount)
                  /\ after.AED = RAdd(before.AED, RuleTable(amount, "USD", "AED"))
             /\ native = "AED" =>
                  /\ after.AED = RAdd(before.AED, amount)
                  /\ after.USD = RAdd(before.USD, RuleTable(amount, "AED", "USD"))
             /\ native = "EUR" =>
                  /\ after.USD = RAdd(before.USD, RuleTable(amount, "EUR", "USD"))
                  /\ after.AED = RAdd(before.AED, RuleTable(amount, "EUR", "AED"))
             /\ after.AED = RMul(after.USD, AED_TO_USD)]_vars

\* C15's case: an AED amount and then an EUR amount accumulated into a cell
C15_Witness ==
    /\ call.fn = "accumulate"
    /\ call.count = 2
    /\ call.currency = "EUR"
    /\ call.amount = Rat(MaxConvert, 3)
    /\ call.cell.USD
         = RAdd(RuleTable(RInt(MaxConvert), "AED", "USD"),
                RuleTable(Rat(MaxConvert, 3), "EUR", "USD"))
    /\ call.cell.AED
         = RAdd(RInt(MaxConvert), RuleTable(Rat(MaxConvert, 3), "EUR", "AED"))

---------------------------------------------------------------------------
(* Vocabulary of the month columns of a produced grid.                     *)

\* the months some category row or income row has accumulated into
TouchedMonths ==
    UNION ( { DOMAIN categoryGroups.nonFlight[k].cells :
                k \in 1..Len(categoryGroups.nonFlight) }
            \cup { DOMAIN categoryGroups.flight[k].cells :
                     k \in 1..Len(categoryGroups.flight) }
            \cup { DOMAIN incomeItems.creditNote, DOMAIN incomeItems.charterProfit } )

ColumnCount == (Len(response.data[1]) - 1) \div 2

\* the month of the j-th month column, read back from the first header row
HeaderMonth(j) ==
    LET label == response.data[1][2 * j]
    IN  label.year * 100 + (CHOOSE k \in 1..12 : MonthShort[k] = label.month)

HeaderMonths == [j \in 1..ColumnCount |-> HeaderMonth(j)]

\* a month key is earlier than another: by year, then by month
MonthBefore(a, b) ==
    \/ a \div 100 < b \div 100
    \/ a \div 100 = b \div 100 /\ a % 100 < b % 100

---------------------------------------------------------------------------
(* Requests over expenses of the year before, the current and the next.    *)

\* periods: none (the month of now), the December before the current year,
\* December to February over the year end, the January after
YearPeriods ==
    { [exp_period_start |-> NullDate, exp_period_end |-> NullDate],
      [exp_period_start |-> [y |-> october2025.y - 1, m |-> 12, d |-> 1],
       exp_period_end |-> [y |-> october2025.y, m |-> 1, d |-> 1]],
      [exp_period_start |-> [y |-> october2025.y, m |-> 12, d |-> 1],
       exp_period_end |-> [y |-> october2025.y + 1, m |-> 2, d |-> 1]],
      [exp_period_start |-> [y |-> october2025.y + 1, m |-> 1, d |-> 1],
       exp_period_end |-> [y |-> october2025.y + 1, m |-> 2, d |-> 1]] }

\* a classified type, an unclassified type, a charter profit item
YearRows ==
    { [BlankExpense EXCEPT !.exp_type = k.exp_type,
                           !.exp_invoice = k.exp_invoice,
                           !.exp_invoice_type = k.exp_invoice_type,
                           !.exp_period_start = p.exp_period_start,
                           !.exp_period_end = p.exp_period_end] :
        k \in { [exp_type |-> cat.Fuel, exp_invoice |-> 0, exp_invoice_type |-> <<>>],
                [exp_type |-> txt.Random_Unmapped_Label, exp_invoice |-> 0,
                 exp_invoice_type |-> <<>>],
                [exp_type |-> cat.Fuel, exp_invoice |-> 1,
                 exp_invoice_type |-> txt.Charter_profit] },
        p \in YearPeriods }

InitYear ==
    \E snapshot \in Snapshots(YearRows), yearFilter \in {"current", "all"} :
        Arrives(snapshot,
                [yearFilter |-> yearFilter, showSubcategories |-> FALSE,
                 reportForATS |-> FALSE],
                [y |-> october2025.y, m |-> 11, d |-> MidDay])

SpecYear == InitYear /\ [][Next]_vars

---------------------------------------------------------------------------
(* C16: month columns.  The month columns of a produced grid are exactly   *)
(* the distinct months touched by a category or income accumulation, in    *)
(* ascending chronological order; with yearFilter "current" only those of  *)
(* the current calendar year, with "all" every touched month.              *)
C16_MonthColumns ==
    Produced =>
        LET kept == { m \in TouchedMonths :
                        opts.yearFilter = "all" \/ m \div 100 = now.y }
        IN  /\ opts.yearFilter \in {"current", "all"}
            /\ { HeaderMonth(j) : j \in 1..ColumnCount } = kept
            /\ \A i, j \in 1..ColumnCount :
                  i < j => MonthBefore(HeaderMonth(i), HeaderMonth(j))
            /\ \A r \in 1..GridRows : Len(response.data[r]) = 1 + 2 * ColumnCount

\* C16's case: months of two years touched, the current year's ones reported
C16_Witness ==
    /\ Produced
    /\ opts.yearFilter = "current"
    /\ \E m \in TouchedMonths : m \div 100 = now.y + 1
    /\ HeaderMonths = <<now.y * 100 + 11, now.y * 100 + 12>>

\* the touched months the year filter of the request keeps
KeptMonths ==
    { m \in TouchedMonths : opts.yearFilter = "all" \/ m \div 100 = now.y }

\* the request has ended with a no-data error and without a sheet
NoDataOutcome ==
    /\ response.status = 404
    /\ response.error \in {"No expenses found",
                           "No data available for the selected period"}
    /\ response.data = <<>>

---------------------------------------------------------------------------
(* C17: no data.  When the filtered month set is empty (an empty expense   *)
(* list, only unclassified expenses, only months outside the requested     *)
(* year) the export ends in the no-data error and produces no sheet; when  *)
(* it is not empty a sheet is produced.                                    *)
C17_NoData ==
    pc = "done" =>
        IF KeptMonths = {}
        THEN NoDataOutcome
        ELSE response.status = 200 /\ Len(response.data) >= 5

\* C17's case: classified expenses, all outside the current year: no sheet
C17_Witness ==
    /\ pc = "done"
    /\ opts.yearFilter = "current"
    /\ Len(expenses) = 2
    /\ TouchedMonths # {}
    /\ KeptMonths = {}
    /\ NoDataOutcome

---------------------------------------------------------------------------
(* C19: malformed period fallback.  An expense with both period fields,    *)
(* no linked flight date and an end before the start (no valid span) is    *)
(* attributed with its full amount to the single month containing          *)
(* created_at.  The code emits no entry at all when period_end lies in an  *)
(* earlier month than period_start, and period_start's month otherwise.    *)
C19_MalformedPeriodFallback ==
    (SplitDone /\ PeriodCase(SplitExpense)
       /\ SplitExpense.created_at # NullDate
       /\ DateBefore(SplitExpense.exp_period_end, SplitExpense.exp_period_start))
        => /\ Len(months) = 1
           /\ months[1].monthKey = keyOfDate(SplitExpense.created_at)
           /\ months[1].amount = amountOf(SplitExpense)

---------------------------------------------------------------------------
(* Requests over lists with a malformed expense.                           *)

\* well-formed rows, and rows with a period field missing, a period that
\* ends before it starts, no currency, an unrecognized currency
MalformedRows ==
    { [BlankExpense EXCEPT !.exp_type = cat.Fuel],
      [BlankExpense EXCEPT !.exp_type = txt.Disbursement_Fee],
      [BlankExpense EXCEPT !.exp_type = cat.Fuel, !.exp_currency = "AED",
          !.exp_period_start = [y |-> october2025.y, m |-> 12, d |-> 1],
          !.exp_period_end = [y |-> october2025.y + 1, m |-> 2, d |-> 1]],
      [BlankExpense EXCEPT !.exp_type = cat.Fuel,
          !.exp_period_start = [y |-> october2025.y, m |-> 9, d |-> MidDay]],
      [BlankExpense EXCEPT !.exp_type = txt.CREW,
          !.exp_period_end = [y |-> october2025.y, m |-> 12, d |-> 1]],
      [BlankExpense EXCEPT !.exp_type = cat.Fuel,
          !.exp_period_start = [y |-> october2025.y, m |-> 12, d |-> 1],
          !.exp_period_end = [y |-> october2025.y, m |-> 11, d |-> 1]],
      [BlankExpense EXCEPT !.exp_type = cat.Fuel, !.exp_currency = ""],
      [BlankExpense EXCEPT !.exp_type = txt.CREW, !.exp_currency = "GBP"],
      [BlankExpense EXCEPT !.exp_type = txt.Random_Unmapped_Label,
          !.exp_currency = "",
          !.exp_period_start = [y |-> october2025.y, m |-> 12, d |-> 1],
          !.exp_period_end = [y |-> october2025.y, m |-> 11, d |-> 1]] }

InitMalformed ==
    \E snapshot \in Snapshots(MalformedRows), reportForATS \in BOOLEAN :
        Arrives(snapshot,
                [yearFilter |-> "all", showSubcategories |-> FALSE,
                 reportForATS |-> reportForATS],
                [y |-> october2025.y, m |-> 11, d |-> MidDay])

SpecMalformed == InitMalformed /\ [][Next]_vars

\* a period or currency field is missing or malformed
Malformed(expense) ==
    \/ (expense.exp_period_start = NullDate) # (expense.exp_period_end = NullDate)
    \/ /\ hasPeriod(expense)
       /\ DateBefore(expense.exp_period_end, expense.exp_period_start)
    \/ expense.exp_currency \notin Supported

\* the accumulators the handler builds over the given rows
AccumulatedOver(list, options) ==
    processAll(emptyAccumulators, applyATSFilter(list, options.reportForATS), 1,
               options.showSubcategories)

RowLabels(acc) ==
    { acc.categoryGroups.nonFlight[k].category :
        k \in 1..Len(acc.categoryGroups.nonFlight) }
    \cup { acc.categoryGroups.flight[k].category :
             k \in 1..Len(acc.categoryGroups.flight) }

\* the cell of the category row with the given label in a month
CellOf(acc, label, monthKey) ==
    LET rows == acc.categoryGroups.nonFlight \o acc.categoryGroups.flight
        Hit == { k \in 1..Len(rows) : rows[k].category = label }
    IN  IF Hit = {} THEN ZeroCell
        ELSE cellAt(rows[CHOOSE k \in Hit : TRUE].cells, monthKey)

AddCells(a, b) == [USD |-> RAdd(a.USD, b.USD), AED |-> RAdd(a.AED, b.AED)]

---------------------------------------------------------------------------
(* C18: a single malformed expense never aborts the batch.  For any list,  *)
(* an expense with malformed or missing period or currency fields does     *)
(* not turn a report that succeeds without it into a failure, and every    *)
(* cell holds what the other rows contribute without it plus the           *)
(* expense's own contribution.  Under the ATS filter the code lets an      *)
(* expense with a period_start and no period_end take a Disbursement fee   *)
(* out of the report (see C8).                                             *)
C18_MalformedNeverAborts ==
    pc = "done" =>
        \A k \in 1..Len(expenses) :
            Malformed(expenses[k]) =>
                LET X == expenses[k]
                    others == Without(expenses, k)
                    without == AccumulatedOver(others, opts)
                    with == AccumulatedOver(expenses, opts)
                    own == IF \E j \in 1..Len(filteredExpenses) :
                                  filteredExpenses[j].id = X.id
                           THEN processAll(emptyAccumulators, <<X>>, 1,
                                           opts.showSubcategories)
                           ELSE emptyAccumulators
                    Months == with.allMonthsSet \cup without.allMonthsSet
                    Same(label) ==
                        \A m \in Months :
                            CellOf(with, label, m)
                              = AddCells(CellOf(without, label, m),
                                         CellOf(own, label, m))
                    SameIncome(row) ==
                        \A m \in Months :
                            cellAt(with.incomeItems[row], m)
                              = AddCells(cellAt(without.incomeItems[row], m),
                                         cellAt(own.incomeItems[row], m))
                IN  /\ ReportOf(others, opts).status = 200 => response.status = 200
                    /\ \A label \in RowLabels(with) \cup RowLabels(without) :
                           Same(label)
                    /\ SameIncome("creditNote")
                    /\ SameIncome("charterProfit")

---------------------------------------------------------------------------
(* Requests over rows of several categories and subtypes.                  *)

\* subtypes: none, and two whose code unit order is not the alphabetical one
OrderSubtypes == { <<>>, <<"B">>, <<" ", "a", " ">> }

OrderRows ==
    { [BlankExpense EXCEPT !.exp_type = t, !.exp_subtype = s] :
        t \in { cat.Disbursement_fee, cat.Flight_planning, cat.Crew, cat.Fuel,
                cat.Honeywell },
        s \in OrderSubtypes }

InitOrder ==
    \E snapshot \in Snapshots(OrderRows), showSubcategories \in BOOLEAN :
        Arrives(snapshot,
                [yearFilter |-> "all", showSubcategories |-> showSubcategories,
                 reportForATS |-> FALSE],
                [y |-> october2025.y, m |-> 11, d |-> MidDay])

SpecOrder == InitOrder /\ [][Next]_vars

\* the fixed priority list of the category rows
PriorityList ==
    << cat.CAMO_and_Management, cat.Flight_planning, cat.Subscriptions,
       cat.Maintenance, cat.Insurance_charge, cat.Crew, cat.FalconCare,
       cat.Honeywell, cat.Ground_handling, cat.Fuel, cat.Navigation_charges,
       cat.Overfly_charges, cat.Catering, cat.Other_charges, cat.Disbursement_fee >>

\* the label is the name, or the name followed by " - " and a subtype
HasBase(label, name) ==
    \/ label = name
    \/ /\ Len(label) >= Len(name) + Len(sep)
       /\ SubSeq(label, 1, Len(name) + Len(sep)) = name \o sep

\* position of the label's base category in the list; after the list if none
Priority(label) ==
    IF \E k \in 1..Len(PriorityList) : HasBase(label, PriorityList[k])
    THEN CHOOSE k \in 1..Len(PriorityList) : HasBase(label, PriorityList[k])
    ELSE Len(PriorityList) + 1

\* the label of the r-th category row of a produced grid
RowLabel(r) == response.data[r + 2][1]

---------------------------------------------------------------------------
(* C20: category row order.  The category rows are ordered by the          *)
(* position of their base category (the label before " - ") in the fixed   *)
(* priority list, a category outside the list after all listed ones; rows  *)
(* of equal priority are in alphabetical order of their full labels.       *)
C20_CategoryRowOrder ==
    Produced =>
        \A r, q \in 1..CategoryRowCount :
            r < q =>
                /\ Priority(RowLabel(r)) <= Priority(RowLabel(q))
                /\ Priority(RowLabel(r)) = Priority(RowLabel(q))
                     => comparePrimary(RowLabel(r), RowLabel(q)) < 0

\* C20's case: two Fuel rows, the later expense's subtype sorted first
C20_Witness ==
    /\ Produced
    /\ opts.showSubcategories
    /\ Len(expenses) = 2
    /\ expenses[1].exp_subtype = <<"B">>
    /\ CategoryRowCount = 2
    /\ RowLabel(1) = cat.Fuel \o sep \o <<"a">>
    /\ RowLabel(2) = cat.Fuel \o sep \o <<"B">>

---------------------------------------------------------------------------
(* Vocabulary of the shape of a produced grid.                             *)

IncomeItem(expense) == isCreditNote(expense) \/ isCharterProfit(expense)

\* the label a classified regular expense is reported under
DisplayLabel(expense) ==
    IF opts.showSubcategories THEN getExpenseCategory(expense)
    ELSE getBaseExpenseCategory(expense)

\* the labels of the categories the processed expenses fall into
ExpectedLabels ==
    { DisplayLabel(filteredExpenses[k]) :
        k \in { i \in 1..Len(filteredExpenses) :
                  /\ ~IncomeItem(filteredExpenses[i])
                  /\ getBaseExpenseCategory(filteredExpenses[i]) # NoCategory } }

NoIncomeItem == \A k \in 1..Len(filteredExpenses) : ~IncomeItem(filteredExpenses[k])

---------------------------------------------------------------------------
(* C21: grid shape.  A produced grid is the two header rows, one row per   *)
(* category in sorted order, then Credit note, Total and Charter profit in *)
(* that order; the summary rows are there, with zeros, also without any    *)
(* income item; every data row is a label and two numbers per month column.*)
C21_GridShape ==
    Produced =>
        /\ GridRows >= 5
        /\ ColumnCount >= 1
        /\ \A r \in 1..GridRows : Len(response.data[r]) = 1 + 2 * ColumnCount
        /\ response.data[1][1] = "Category"
        /\ response.data[2][1] = ""
        /\ \A j \in 1..ColumnCount :
              /\ response.data[1][2 * j + 1] = ""
              /\ response.data[2][2 * j] = "USD"
              /\ response.data[2][2 * j + 1] = "AED"
        /\ CategoryRowCount = Cardinality(ExpectedLabels)
        /\ { RowLabel(r) : r \in 1..CategoryRowCount } = ExpectedLabels
        /\ \A r, q \in 1..CategoryRowCount :
              r < q => Priority(RowLabel(r)) <= Priority(RowLabel(q))
        /\ CreditNoteRow[1] = cat.Credit_note
        /\ TotalRow[1] = cat.Total
        /\ CharterProfitRow[1] = cat.Charter_profit
        /\ \A r \in 3..GridRows, j \in NumericColumns :
              response.data[r][j] = Rat(response.data[r][j].num, response.data[r][j].den)
        /\ NoIncomeItem =>
              \A j \in NumericColumns :
                  CreditNoteRow[j] = RZero /\ CharterProfitRow[j] = RZero

\* C21's case: a grid of two categories and several months without income item
C21_Witness ==
    /\ Produced
    /\ NoIncomeItem
    /\ CategoryRowCount = 2
    /\ ColumnCount >= 2
    /\ \A j \in NumericColumns : CreditNoteRow[j] = RZero

---------------------------------------------------------------------------
(* Two export requests in one process.  The handler runs on the event      *)
(* loop: the request that holds the variables runs until it awaits a query *)
(* or has answered, and then the other request may be resumed.             *)

\* the locals of the running request
locals ==
    [expenses |-> expenses, opts |-> opts, now |-> now, pc |-> pc,
     filteredExpenses |-> filteredExpenses, idx |-> idx,
     categoryGroups |-> categoryGroups, incomeItems |-> incomeItems,
     allMonthsSet |-> allMonthsSet, response |-> response]

\* the running request is at an await or has answered
AtAwait == pc \in {"start", "fetched", "done"}

\* Switch with one month set for both requests
SwitchSharingMonths ==
    /\ peer # NoPeer
    /\ AtAwait
    /\ expenses' = peer.expenses
    /\ opts' = peer.opts
    /\ now' = peer.now
    /\ pc' = peer.pc
    /\ filteredExpenses' = peer.filteredExpenses
    /\ idx' = peer.idx
    /\ categoryGroups' = peer.categoryGroups
    /\ incomeItems' = peer.incomeItems
    /\ allMonthsSet' = allMonthsSet
    /\ response' = peer.response
    /\ peer' = locals
    /\ UNCHANGED <<months, call, table>>

\* the event loop resumes the other request
Switch ==
    /\ peer # NoPeer
    /\ AtAwait
    /\ expenses' = peer.expenses
    /\ opts' = peer.opts
    /\ now' = peer.now
    /\ pc' = peer.pc
    /\ filteredExpenses' = peer.filteredExpenses
    /\ idx' = peer.idx
    /\ categoryGroups' = peer.categoryGroups
    /\ incomeItems' = peer.incomeItems
    /\ allMonthsSet' = peer.allMonthsSet
    /\ response' = peer.response
    /\ peer' = locals
    /\ UNCHANGED <<months, call, table>>

NextConcurrent == Next \/ Switch

\* a fuel row of the month of now, a crew row spread over December to February
ConcurrentRows ==
    { BlankExpense,
      [BlankExpense EXCEPT !.exp_type = txt.CREW,
                           !.exp_period_start = [y |-> october2025.y, m |-> 12, d |-> 1],
                           !.exp_period_end = [y |-> october2025.y + 1, m |-> 2, d |-> 1]] }

\* the locals of a request that has just arrived
Arrived(snapshot, yearFilter) ==
    [expenses |-> snapshot,
     opts |-> [yearFilter |-> yearFilter, showSubcategories |-> FALSE,
               reportForATS |-> FALSE],
     now |-> [y |-> october2025.y, m |-> 11, d |-> MidDay], pc |-> "start",
     filteredExpenses |-> <<>>, idx |-> 0,
     categoryGroups |-> emptyAccumulators.categoryGroups,
     incomeItems |-> emptyAccumulators.incomeItems,
     allMonthsSet |-> emptyAccumulators.allMonthsSet, response |-> NoResponse]

\* the variables hold the locals of the given request
Running(request) ==
    /\ expenses = request.expenses
    /\ opts = request.opts
    /\ now = request.now
    /\ pc = request.pc
    /\ filteredExpenses = request.filteredExpenses
    /\ idx = request.idx
    /\ categoryGroups = request.categoryGroups
    /\ incomeItems = request.incomeItems
    /\ allMonthsSet = request.allMonthsSet
    /\ response = request.response

InitConcurrent ==
    \E first \in Snapshots(ConcurrentRows), second \in Snapshots(ConcurrentRows),
       yearOfFirst \in {"current", "all"}, yearOfSecond \in {"current", "all"} :
        /\ Running(Arrived(first, yearOfFirst))
        /\ peer = Arrived(second, yearOfSecond)
        /\ months = <<>>
        /\ call = NoCall
        /\ table = <<>>

SpecConcurrent == InitConcurrent /\ [][NextConcurrent]_vars

---------------------------------------------------------------------------
(* C22: request independence.  Of two export requests interleaved at their *)
(* await points, each answers exactly what it answers when it runs alone   *)
(* on its own snapshot and options: no accumulator, month set or filter    *)
(* state is shared, and two requests with the same snapshot, options and   *)
(* current date give the same matrix.                                      *)
C22_RequestIndependence ==
    /\ pc = "done" => response = ReportOf(expenses, opts)
    /\ ( /\ pc = "done"
         /\ peer.pc = "done"
         /\ peer.expenses = expenses
         /\ peer.opts = opts
         /\ peer.now = now ) => peer.response = response

\* C22's case: a request has produced its grid while the other one, with a
\* different snapshot, is suspended at its second query
C22_Witness ==
    /\ Produced
    /\ peer.pc = "fetched"
    /\ Len(peer.expenses) = 2
    /\ peer.expenses # expenses
    /\ peer.opts # opts

---------------------------------------------------------------------------
(* The expenses table and the handlers that write it: POST, PUT and DELETE *)
(* /api/expenses.  A request body is a record; a month text `YYYY-MM` is   *)
(* [y, m]; an amount text is [value, decimals]: the number it parses to    *)
(* and whether it was typed with two decimals (`20.00`) or none (`20`).    *)

\* the empty month text
NoMonth == [y |-> 0, m |-> 0]

\* no amount text
NoAmount == [value |-> 0, decimals |-> FALSE]

\* a body that leaves exp_flight, exp_place out (undefined)
AbsentFlight == 0 - 1

AbsentPlace == "undefined"

\* exp_comments: NULL, or the amount text and currency a fee comment quotes
NoComment == [amount |-> NoAmount, currency |-> ""]

\* a row of the expenses table with nothing filled in
BlankRow ==
    [f \in DOMAIN BlankExpense \cup {"exp_comments"} |->
        IF f = "exp_comments" THEN NoComment ELSE BlankExpense[f]]

\* the row of expense_types whose name is like '%disbursement%'
disbursementType == [id |-> <<"7">>, name |-> txt.Disbursement_Fee]

getNextMonth(yearMonth) ==
    IF yearMonth.m = 12 THEN [y |-> yearMonth.y + 1, m |-> 1]
    ELSE [y |-> yearMonth.y, m |-> yearMonth.m + 1]

\* `${yearMonth}-01`
firstDayOf(yearMonth) == [y |-> yearMonth.y, m |-> yearMonth.m, d |-> 1]

\* expenseData.exp_period_start, also startDate of the length check
periodStartOf(body) ==
    IF body.exp_period_start # NoMonth THEN firstDayOf(body.exp_period_start)
    ELSE NullDate

\* expenseData.exp_period_end, also endDate of the length check
periodEndOf(body) ==
    IF body.exp_period_end # NoMonth
    THEN IF body.exp_period_start = body.exp_period_end
         THEN firstDayOf(getNextMonth(body.exp_period_end))
         ELSE firstDayOf(body.exp_period_end)
    ELSE NullDate

monthsDiff(body) ==
    (getFullYear(periodEndOf(body)) - getFullYear(periodStartOf(body))) * 12
      + (getMonth(periodEndOf(body)) - getMonth(periodStartOf(body)))

\* the period length check answers 400
periodTooLong(body) ==
    /\ body.exp_period_start # NoMonth
    /\ body.exp_period_end # NoMonth
    /\ monthsDiff(body) > 12

\* the columns POST inserts and PUT updates
expenseData(body) ==
    [exp_type |-> body.exp_type,
     exp_place |-> IF body.exp_place = AbsentPlace THEN "" ELSE body.exp_place,
     exp_amount |-> body.exp_amount.value,
     exp_period_start |-> periodStartOf(body),
     exp_period_end |-> periodEndOf(body),
     exp_invoice |-> body.exp_invoice,
     exp_flight |-> IF body.exp_flight = AbsentFlight THEN 0 ELSE body.exp_flight,
     exp_currency |-> body.exp_currency,
     exp_comments |-> NoComment]

\* a row with the given columns overwritten
withColumns(row, columns) ==
    [f \in DOMAIN row |-> IF f \in DOMAIN columns THEN columns[f] ELSE row[f]]

\* the id the sequence of the table hands out next
nextId(rows) ==
    IF rows = <<>> THEN 1
    ELSE 1 + CHOOSE n \in { rows[k].id : k \in 1..Len(rows) } :
                 \A k \in 1..Len(rows) : rows[k].id <= n

\* .eq('id', id).single()
rowOfId(rows, id) ==
    rows[CHOOSE k \in 1..Len(rows) : rows[k].id = id]

hasId(rows, id) == \E k \in 1..Len(rows) : rows[k].id = id

\* .delete().eq('id', id)
deleteId(rows, id) ==
    LET Kept(row) == row.id # id
    IN  SelectSeq(rows, Kept)

\* .update(columns).eq('id', id)
updateId(rows, id, columns) ==
    [k \in 1..Len(rows) |->
        IF rows[k].id = id THEN withColumns(rows[k], columns) ELSE rows[k]]

\* the query for the fee of an expense: type, invoice, flight, period, place
feesMatching(rows, typeKey, invoiceId, flightId, periodStart, periodEnd, place) ==
    LET Matches(row) ==
            /\ invoiceId # 0
            /\ row.exp_invoice = invoiceId
            /\ row.exp_type = typeKey
            /\ IF flightId # 0 THEN row.exp_flight = flightId ELSE row.exp_flight = 0
            /\ IF periodStart # NullDate /\ periodEnd # NullDate
               THEN /\ row.exp_period_start = periodStart
                    /\ row.exp_period_end = periodEnd
               ELSE /\ row.exp_period_start = NullDate
                    /\ row.exp_period_end = NullDate
            /\ IF place # "" THEN row.exp_place = place ELSE row.exp_place = ""
    IN  SelectSeq(rows, Matches)

\* comment.includes(amount.toFixed(2)) && comment.includes(currency)
quotes(comment, amount, currency) ==
    /\ comment # NoComment
    /\ comment.amount.decimals
    /\ comment.amount.value = amount
    /\ comment.currency = currency

\* the fee picked from the matches: the first whose comment quotes the
\* expense's amount and currency, else the first
pickFee(fees, amount, currency) ==
    IF \E k \in 1..Len(fees) : quotes(fees[k].exp_comments, amount, currency)
    THEN fees[CHOOSE k \in 1..Len(fees) :
                /\ quotes(fees[k].exp_comments, amount, currency)
                /\ \A j \in 1..(k - 1) :
                      ~quotes(fees[j].exp_comments, amount, currency)].id
    ELSE fees[1].id

\* parseFloat(exp_amount) * 0.05
fivePercent(amount) == (amount.value * 5) \div 100


\* the variables of the export handler, which the table handlers leave alone
exportVars == <<expenses, opts, now, filteredExpenses, idx, categoryGroups,
                incomeItems, allMonthsSet, peer>>

answer(status, error, data, fee) ==
    [status |-> status, error |-> error, data |-> data, fee |-> fee]

\* POST /api/expenses: the length check, then the insert, which the
\* database may refuse
PostExpense ==
    /\ pc = "request"
    /\ call.fn = "POST"
    /\ IF periodTooLong(call)
       THEN /\ response' = answer(400, "Period too long", <<>>, FALSE)
            /\ table' = table
       ELSE \E inserted \in BOOLEAN :
               IF inserted
               THEN LET row == withColumns([BlankRow EXCEPT !.id = nextId(table)],
                                           expenseData(call))
                    IN  /\ table' = Append(table, row)
                        /\ response' = answer(201, "", <<row>>, FALSE)
               ELSE /\ table' = table
                    /\ response' = answer(500, "Failed to add expense to database",
                                          <<>>, FALSE)
    /\ pc' = "idle"
    /\ UNCHANGED <<exportVars, months, call>>

\* the fee part of PUT, run on the table after the update of the expense
\* (no subtype and no invoice type is named like '%disbursement%')
putDisbursementFee(rows, currentExpense, body) ==
    LET invoiceId == IF body.exp_invoice # 0 THEN body.exp_invoice
                     ELSE currentExpense.exp_invoice
        flightId == IF body.exp_flight # AbsentFlight THEN body.exp_flight
                    ELSE currentExpense.exp_flight
        periodStart == IF periodStartOf(body) # NullDate THEN periodStartOf(body)
                       ELSE currentExpense.exp_period_start
        periodEnd == IF periodEndOf(body) # NullDate THEN periodEndOf(body)
                     ELSE currentExpense.exp_period_end
        place == IF body.exp_place # AbsentPlace THEN body.exp_place
                 ELSE currentExpense.exp_place
        disbursementFees ==
            feesMatching(rows, disbursementType.name, invoiceId, flightId,
                         periodStart, periodEnd, place)
        oldCurrencyStr == IF currentExpense.exp_currency # ""
                          THEN currentExpense.exp_currency ELSE "AED"
        newCurrency == IF body.exp_currency # "" THEN body.exp_currency
                       ELSE oldCurrencyStr
        disbursementFeeData ==
            [exp_amount |-> fivePercent(body.exp_amount),
             exp_currency |-> newCurrency,
             exp_comments |-> [amount |-> body.exp_amount, currency |-> newCurrency],
             exp_place |-> place,
             exp_flight |-> flightId,
             exp_period_start |-> periodStart,
             exp_period_end |-> periodEnd]
    IN  IF disbursementFees # <<>>
        THEN updateId(rows,
                      pickFee(disbursementFees, currentExpense.exp_amount,
                              oldCurrencyStr),
                      disbursementFeeData)
        ELSE Append(rows,
                    withColumns(
                        withColumns([BlankRow EXCEPT !.id = nextId(rows)],
                                    disbursementFeeData),
                        [exp_type |-> disbursementType.name,
                         exp_invoice |-> invoiceId]))

\* PUT /api/expenses/:id: the length check, the row, the update, the fee
PutExpense ==
    /\ pc = "request"
    /\ call.fn = "PUT"
    /\ IF periodTooLong(call)
       THEN /\ response' = answer(400, "Period too long", <<>>, FALSE)
            /\ table' = table
       ELSE IF ~hasId(table, call.id)
       THEN /\ response' = answer(404, "Expense not found", <<>>, FALSE)
            /\ table' = table
       ELSE \E updated \in BOOLEAN :
               IF updated
               THEN LET currentExpense == rowOfId(table, call.id)
                        rows == updateId(table, call.id, expenseData(call))
                        withFee == call.update_disbursement_fee
                                     /\ call.exp_amount # NoAmount
                    IN  /\ table' = IF withFee
                                    THEN putDisbursementFee(rows, currentExpense, call)
                                    ELSE rows
                        /\ response' = answer(200, "", <<rowOfId(rows, call.id)>>,
                                              withFee)
               ELSE /\ table' = table
                    /\ response' = answer(500, "Failed to update expense in database",
                                          <<>>, FALSE)
    /\ pc' = "idle"
    /\ UNCHANGED <<exportVars, months, call>>

\* DELETE /api/expenses/:id: the row, its fee, the fee's delete, the delete
DeleteExpense ==
    /\ pc = "request"
    /\ call.fn = "DELETE"
    /\ IF ~hasId(table, call.id)
       THEN /\ response' = answer(404, "Expense not found", <<>>, FALSE)
            /\ table' = table
       ELSE LET expense == rowOfId(table, call.id)
                disbursementFees ==
                    feesMatching(table, disbursementType.id, expense.exp_invoice,
                                 expense.exp_flight, expense.exp_period_start,
                                 expense.exp_period_end, expense.exp_place)
                disbursementFeeId ==
                    IF disbursementFees = <<>> THEN 0
                    ELSE pickFee(disbursementFees, expense.exp_amount,
                                 IF expense.exp_currency # ""
                                 THEN expense.exp_currency ELSE "AED")
            IN  /\ table' = deleteId(deleteId(table, disbursementFeeId), call.id)
                /\ response' = answer(200, "", <<>>, disbursementFeeId # 0)
    /\ pc' = "idle"
    /\ UNCHANGED <<exportVars, months, call>>

\* the report splits the row the last request stored
SplitStored ==
    /\ pc = "idle"
    /\ response.status \in {200, 201}
    /\ response.data # <<>>
    /\ months' = splitExpenseByMonths(response.data[1])
    /\ pc' = "split"
    /\ UNCHANGED <<exportVars, response, table, call>>


---------------------------------------------------------------------------
(* One POST or PUT with period inputs, and the report's split of the row.  *)

\* the export handler is not running
AtRest ==
    /\ expenses = <<>>
    /\ opts = [yearFilter |-> "current", showSubcategories |-> FALSE,
               reportForATS |-> FALSE]
    /\ now = [y |-> october2025.y, m |-> 11, d |-> MidDay]
    /\ filteredExpenses = <<>>
    /\ idx = 0
    /\ categoryGroups = emptyAccumulators.categoryGroups
    /\ incomeItems = emptyAccumulators.incomeItems
    /\ allMonthsSet = emptyAccumulators.allMonthsSet
    /\ response = NoResponse
    /\ months = <<>>
    /\ peer = NoPeer

\* a body with nothing filled in but the type and the amount
BlankBody ==
    [fn |-> "POST", id |-> 1, exp_type |-> cat.Fuel, exp_place |-> AbsentPlace,
     exp_amount |-> [value |-> AmountUnit, decimals |-> FALSE], exp_currency |-> "",
     exp_period_start |-> NoMonth, exp_period_end |-> NoMonth, exp_invoice |-> 0,
     exp_flight |-> AbsentFlight, update_disbursement_fee |-> FALSE]

\* the month inputs of the form: any month of the modelled years, or none
MonthInputs == [y : Years, m : 1..12] \cup {NoMonth}

PeriodBodies ==
    { [BlankBody EXCEPT !.fn = fn, !.exp_period_start = start,
                        !.exp_period_end = end] :
        fn \in {"POST", "PUT"}, start \in MonthInputs, end \in MonthInputs }

InitPeriod ==
    /\ AtRest
    /\ pc = "request"
    /\ table = <<[BlankRow EXCEPT !.id = 1]>>
    /\ call \in PeriodBodies

NextPeriod == PostExpense \/ PutExpense \/ SplitStored

SpecPeriod == InitPeriod /\ [][NextPeriod]_vars

\* both month inputs are given
BothInputs == call.exp_period_start # NoMonth /\ call.exp_period_end # NoMonth

\* the months of the calendar counted from year 0
indexOfMonth(yearMonth) == yearMonth.y * 12 + (yearMonth.m - 1)

\* the months the input covers, the start and the end month included
CoveredMonths ==
    indexOfMonth(call.exp_period_end) - indexOfMonth(call.exp_period_start) + 1

Answered == pc \in {"idle", "split"}

Accepted == Answered /\ response.status \in {200, 201}

---------------------------------------------------------------------------
(* C23: maximum period length.  POST and PUT answer 400 to every period    *)
(* input that covers more than 12 months, so every expense they accept     *)
(* with both period inputs is spread by the report's splitter over at most *)
(* 12 monthly entries.                                                     *)
C23_MaximumPeriodLength ==
    /\ (Answered /\ BothInputs /\ CoveredMonths > 12) => ~Accepted
    /\ (pc = "split" /\ BothInputs) => Len(months) <= 12

\* the keys of the months from the start input to the end input
InputKeys ==
    [k \in 1..CoveredMonths |->
        LET index == indexOfMonth(call.exp_period_start) + (k - 1)
        IN  monthKeyOf(index \div 12, index % 12)]

\* another input pair, accepted as well, is stored as the same period
StoredAlike(start, end) ==
    LET other == [call EXCEPT !.exp_period_start = start, !.exp_period_end = end]
    IN  /\ <<start, end>> # <<call.exp_period_start, call.exp_period_end>>
        /\ start # NoMonth
        /\ end # NoMonth
        /\ indexOfMonth(start) <= indexOfMonth(end)
        /\ ~periodTooLong(other)
        /\ periodStartOf(other) = periodStartOf(call)
        /\ periodEndOf(other) = periodEndOf(call)

---------------------------------------------------------------------------
(* C26: period input round trip.  For month inputs startMonth <= endMonth  *)
(* that POST accepts, the report splits the stored period into exactly the *)
(* months startMonth through endMonth, each once; two different accepted   *)
(* inputs are never stored as the same period.                             *)
C26_PeriodInputRoundTrip ==
    ( /\ pc = "split"
      /\ call.fn = "POST"
      /\ BothInputs
      /\ CoveredMonths >= 1 ) =>
        /\ [k \in 1..Len(months) |-> months[k].monthKey] = InputKeys
        /\ \A start, end \in MonthInputs : ~StoredAlike(start, end)


---------------------------------------------------------------------------
(* A few requests in a row against an empty table: an expense is added,    *)
(* updated with or without its fee, deleted.                               *)

MaxRequests == 3

\* amounts whose 5% is a whole number, typed without and with decimals
FeeAmounts ==
    { [value |-> 100 * AmountUnit, decimals |-> FALSE],
      [value |-> 200 * AmountUnit, decimals |-> TRUE] }

\* the period inputs of the requests: none, October and November 2025
FeePeriods ==
    { <<NoMonth, NoMonth>>,
      <<[y |-> october2025.y, m |-> 10], [y |-> october2025.y, m |-> 11]>> }

PostBodies ==
    { [BlankBody EXCEPT !.exp_invoice = 1, !.exp_flight = flight,
                        !.exp_place = "DXB", !.exp_currency = "AED",
                        !.exp_amount = [value |-> 100 * AmountUnit, decimals |-> FALSE],
                        !.exp_period_start = period[1],
                        !.exp_period_end = period[2]] :
        flight \in {0, 1}, period \in FeePeriods }

PutBodies ==
    { [BlankBody EXCEPT !.fn = "PUT", !.exp_invoice = 1, !.exp_flight = flight,
                        !.exp_place = place, !.exp_currency = "AED",
                        !.exp_amount = amount,
                        !.exp_period_start = period[1],
                        !.exp_period_end = period[2],
                        !.update_disbursement_fee = fee] :
        flight \in {AbsentFlight, 1, 2}, place \in {AbsentPlace, "DXB", "AUH"},
        amount \in FeeAmounts, period \in FeePeriods, fee \in BOOLEAN }

DeleteBodies == { [BlankBody EXCEPT !.fn = "DELETE", !.id = id] : id \in {1, 2} }

FeeBodies == PostBodies \cup PutBodies \cup DeleteBodies

\* the next request arrives
Receive ==
    /\ pc = "idle"
    /\ call.served < MaxRequests
    /\ \E body \in FeeBodies :
          call' = [f \in DOMAIN body \cup {"served"} |->
                      IF f = "served" THEN call.served + 1 ELSE body[f]]
    /\ pc' = "request"
    /\ UNCHANGED <<exportVars, months, response, table>>

InitFee ==
    /\ AtRest
    /\ pc = "idle"
    /\ table = <<>>
    /\ call = [fn |-> "none", served |-> 0]

NextFee == Receive \/ PostExpense \/ PutExpense \/ DeleteExpense

SpecFee == InitFee /\ [][NextFee]_vars

\* F is a Disbursement fee row with the invoice, flight, period and place of E
FeeOf(E, F) ==
    /\ F.id # E.id
    /\ F.exp_type = disbursementType.name
    /\ F.exp_invoice = E.exp_invoice
    /\ F.exp_flight = E.exp_flight
    /\ F.exp_period_start = E.exp_period_start
    /\ F.exp_period_end = E.exp_period_end
    /\ F.exp_place = E.exp_place

\* the ids of the fee rows of E in the rows
FeesOf(E, rows) == { rows[k].id : k \in { j \in 1..Len(rows) : FeeOf(E, rows[j]) } }

\* the request in flight is answered 200 in this step
Succeeds(fn) ==
    /\ pc = "request"
    /\ call.fn = fn
    /\ pc' = "idle"
    /\ response'.status = 200

---------------------------------------------------------------------------
(* C24: delete cascade.  When DELETE succeeds for an expense E and a       *)
(* Disbursement fee row made by the PUT fee logic has E's invoice, flight, *)
(* period and place, the fee row is deleted together with E and the answer *)
(* reports disbursementFeeDeleted = true.                                  *)
C24_DeleteCascade ==
    [][ ( /\ Succeeds("DELETE")
          /\ FeesOf(rowOfId(table, call.id), table) # {} ) =>
            /\ ~hasId(table', call.id)
            /\ \E id \in FeesOf(rowOfId(table, call.id), table) : ~hasId(table', id)
            /\ response'.fee ]_vars

---------------------------------------------------------------------------
(* C30: fee update keeps a single fee.  If exactly one Disbursement fee    *)
(* row matches the expense before a successful PUT with                    *)
(* update_disbursement_fee, then afterwards there is still exactly one fee *)
(* row for the expense, updated in place to 5% of the new amount and to    *)
(* the expense's new flight, period and place, and no fee row was          *)
(* inserted, also when the PUT changes the flight, period or place.        *)
C30_FeeUpdateKeepsSingleFee ==
    [][ ( /\ Succeeds("PUT")
          /\ call.update_disbursement_fee
          /\ call.exp_amount # NoAmount
          /\ Cardinality(FeesOf(rowOfId(table, call.id), table)) = 1 ) =>
            /\ Len(table') = Len(table)
            /\ FeesOf(rowOfId(table', call.id), table')
                 = FeesOf(rowOfId(table, call.id), table)
            /\ \A id \in FeesOf(rowOfId(table', call.id), table') :
                  rowOfId(table', id).exp_amount = fivePercent(call.exp_amount) ]_vars


---------------------------------------------------------------------------
(* sortFlightsLogically and sortFlightsWithinDay, loop by loop.  `call`    *)
(* holds the locals: the flights handed in, the groups by date still to    *)
(* do, the result so far, and the chain of the day being built.            *)

MaxFlights == 3

Airports == {"DXB", "AUH"}

\* two days, the later one first
FlightDates ==
    { [y |-> october2025.y, m |-> 10, d |-> MidDay],
      [y |-> october2025.y, m |-> 10, d |-> 1] }

\* the flights a caller hands in: ids by position, dates in any order
FlightLists ==
    UNION { { [k \in 1..n |->
                [id |-> k, flt_date |-> legs[k].flt_date, flt_dep |-> legs[k].flt_dep,
                 flt_arr |-> legs[k].flt_arr]] :
              legs \in [1..n -> [flt_date : FlightDates, flt_dep : Airports,
                                 flt_arr : Airports]] } :
            n \in 0..MaxFlights }

\* [...flights].sort by date: stable, oldest first
RECURSIVE sortedByDate(_)
sortedByDate(flights) ==
    IF flights = <<>> THEN <<>>
    ELSE LET last == flights[Len(flights)]
             before == sortedByDate(SubSeq(flights, 1, Len(flights) - 1))
             NotLater(f) == getTime(f.flt_date) <= getTime(last.flt_date)
             Later(f) == ~NotLater(f)
         IN  SelectSeq(before, NotLater) \o <<last>> \o SelectSeq(before, Later)

\* flightsByDate[date], in the order of the pushes
flightsOfDate(flights, date) ==
    LET OfDate(f) == f.flt_date = date
    IN  SelectSeq(sortedByDate(flights), OfDate)

\* Object.keys(flightsByDate).sort by date
RECURSIVE sortedDatesOf(_)
sortedDatesOf(dates) ==
    IF dates = {} THEN <<>>
    ELSE LET first == CHOOSE d \in dates :
                          \A e \in dates : getTime(d) <= getTime(e)
         IN  <<first>> \o sortedDatesOf(dates \ {first})

\* findIndex always answering that no flight connects
findIndexNone(remaining, currentArrival) == 0

\* remaining.findIndex(flight => flight.flt_dep === currentArrival):
\* the position of the first match, 0 for the -1 of no match
findIndex(remaining, currentArrival) ==
    IF \E k \in 1..Len(remaining) : remaining[k].flt_dep = currentArrival
    THEN CHOOSE k \in 1..Len(remaining) :
            /\ remaining[k].flt_dep = currentArrival
            /\ \A j \in 1..(k - 1) : remaining[j].flt_dep # currentArrival
    ELSE 0

\* remaining.splice(k, 1): the array without its k-th element
spliced(remaining, k) ==
    SubSeq(remaining, 1, k - 1) \o SubSeq(remaining, k + 1, Len(remaining))

\* the early return, else the sort by date and the grouping
SortByDate ==
    /\ call.fn = "sortFlightsLogically"
    /\ call.at = "called"
    /\ IF Len(call.flights) = 0
       THEN call' = [call EXCEPT !.at = "returned", !.result = call.flights]
       ELSE call' = [call EXCEPT
                        !.at = "dates",
                        !.sortedDates =
                            sortedDatesOf({ call.flights[k].flt_date :
                                              k \in 1..Len(call.flights) })]
    /\ UNCHANGED handlerVars

\* sortedDates.forEach: the next date; a day of one flight is returned as is
NextDay ==
    /\ call.fn = "sortFlightsLogically"
    /\ call.at = "dates"
    /\ call.sortedDates # <<>>
    /\ LET dayFlights == flightsOfDate(call.flights, Head(call.sortedDates))
       IN  IF Len(dayFlights) <= 1
           THEN call' = [call EXCEPT !.sortedDates = Tail(@),
                                     !.result = @ \o dayFlights]
           ELSE call' = [call EXCEPT !.at = "chain",
                                     !.sortedDates = Tail(@),
                                     !.remaining = Tail(dayFlights),
                                     !.chain = <<Head(dayFlights)>>]
    /\ UNCHANGED handlerVars

\* one turn of the while loop of sortFlightsWithinDay
ChainStep ==
    /\ call.fn = "sortFlightsLogically"
    /\ call.at = "chain"
    /\ Len(call.remaining) > 0
    /\ LET currentFlight == call.chain[Len(call.chain)]
           nextFlightIndex == findIndex(call.remaining, currentFlight.flt_arr)
       IN  IF nextFlightIndex # 0
           THEN call' = [call EXCEPT
                            !.remaining = spliced(@, nextFlightIndex),
                            !.chain = Append(@, call.remaining[nextFlightIndex])]
           ELSE call' = [call EXCEPT
                            !.remaining = Tail(@),
                            !.chain = Append(@, Head(call.remaining))]
    /\ UNCHANGED handlerVars

\* the while loop is over: result.push(...sortedDayFlights)
EndDay ==
    /\ call.fn = "sortFlightsLogically"
    /\ call.at = "chain"
    /\ Len(call.remaining) = 0
    /\ call' = [call EXCEPT !.at = "dates", !.result = @ \o call.chain,
                            !.chain = <<>>]
    /\ UNCHANGED handlerVars

\* the forEach is over: return result
ReturnSorted ==
    /\ call.fn = "sortFlightsLogically"
    /\ call.at = "dates"
    /\ call.sortedDates = <<>>
    /\ call' = [call EXCEPT !.at = "returned"]
    /\ UNCHANGED handlerVars

NextSort == SortByDate \/ NextDay \/ ChainStep \/ EndDay \/ ReturnSorted

InitSort ==
    /\ Idle
    /\ \E flights \in FlightLists :
          call = [fn |-> "sortFlightsLogically", at |-> "called",
                  flights |-> flights, sortedDates |-> <<>>, result |-> <<>>,
                  remaining |-> <<>>, chain |-> <<>>]

\* the function runs to its end once called
SpecSort == InitSort /\ [][NextSort]_vars /\ WF_vars(NextSort)

Returned == call.at = "returned"

\* the flights of the date of result[k] that result[1..k] has not placed, in
\* the order in which they were handed in
NotYetPlaced(k) ==
    LET Open(f) == /\ f.flt_date = call.result[k].flt_date
                   /\ \A j \in 1..k : call.result[j].id # f.id
    IN  SelectSeq(call.flights, Open)

---------------------------------------------------------------------------
(* C25: sortFlightsLogically terminates and returns every flight handed in *)
(* exactly once, in non-decreasing order of flt_date; within a date a      *)
(* flight is immediately followed by a not yet placed flight of the date   *)
(* that departs where it arrives whenever there is one, and else by the    *)
(* first not yet placed flight of the date.                                *)
C25_SortFlightsLogically ==
    /\ <>Returned
    /\ [](Returned =>
            /\ Len(call.result) = Len(call.flights)
            /\ \A k \in 1..Len(call.flights) :
                  \E j \in 1..Len(call.result) : call.result[j] = call.flights[k]
            /\ \A k \in 1..(Len(call.result) - 1) :
                  /\ getTime(call.result[k].flt_date)
                       <= getTime(call.result[k + 1].flt_date)
                  /\ NotYetPlaced(k) # <<>> =>
                        LET open == NotYetPlaced(k)
                            Connects(f) == f.flt_dep = call.result[k].flt_arr
                        IN  IF SelectSeq(open, Connects) # <<>>
                            THEN /\ call.result[k + 1].flt_date = call.result[k].flt_date
                                 /\ Connects(call.result[k + 1])
                            ELSE call.result[k + 1] = Head(open))

\* C25's case: three flights of one day, the third connecting to the first
C25_Witness ==
    /\ Returned
    /\ Len(call.flights) = 3
    /\ \A k \in 1..3 : call.flights[k].flt_date = call.flights[1].flt_date
    /\ call.flights[1].flt_arr # call.flights[2].flt_dep
    /\ call.flights[1].flt_arr = call.flights[3].flt_dep
    /\ call.result = <<call.flights[1], call.flights[3], call.flights[2]>>


---------------------------------------------------------------------------
(* Requests over rows of every currency, spread over three months.         *)

\* a fuel row, a credit note, a charter profit item, each in every currency
\* (none, the three supported codes, another code), December to February
ColumnRows ==
    { [BlankExpense EXCEPT !.exp_type = cat.Fuel, !.exp_currency = currency,
                           !.exp_invoice = k.exp_invoice,
                           !.exp_invoice_type = k.exp_invoice_type,
                           !.exp_period_start = [y |-> october2025.y, m |-> 12, d |-> 1],
                           !.exp_period_end = [y |-> october2025.y + 1, m |-> 2, d |-> 1]] :
        currency \in Currencies,
        k \in { [exp_invoice |-> 0, exp_invoice_type |-> <<>>],
                [exp_invoice |-> 1, exp_invoice_type |-> txt.Credit_Note],
                [exp_invoice |-> 1, exp_invoice_type |-> txt.Charter_profit] } }

InitColumns ==
    \E snapshot \in Snapshots(ColumnRows) :
        Arrives(snapshot,
                [yearFilter |-> "all", showSubcategories |-> FALSE,
                 reportForATS |-> FALSE],
                [y |-> october2025.y, m |-> 11, d |-> MidDay])

SpecColumns == InitColumns /\ [][Next]_vars

\* the AED column of a cell is its USD column at the fixed rate
Consistent(cell) == cell.AED = RMul(cell.USD, AED_TO_USD)

\* every cell of a month key -> cell map is consistent
AllConsistent(cells) == \A monthKey \in DOMAIN cells : Consistent(cells[monthKey])

---------------------------------------------------------------------------
(* C27: column consistency.  After any sequence of accumulations, for      *)
(* expenses in any currency (USD, AED, EUR, missing or unrecognized),      *)
(* every category cell, every Credit note and Charter profit cell and      *)
(* every Total cell has AED = USD * 3.6735 in exact arithmetic.            *)
C27_ColumnConsistency ==
    /\ \A k \in 1..Len(categoryGroups.nonFlight) :
          AllConsistent(categoryGroups.nonFlight[k].cells)
    /\ \A k \in 1..Len(categoryGroups.flight) :
          AllConsistent(categoryGroups.flight[k].cells)
    /\ AllConsistent(incomeItems.creditNote)
    /\ AllConsistent(incomeItems.charterProfit)
    /\ Produced =>
          \A r \in 3..GridRows, j \in 1..ColumnCount :
              Consistent([USD |-> response.data[r][2 * j],
                          AED |-> response.data[r][2 * j + 1]])

\* C27's case: a fuel row in an unrecognized currency and a credit note in
\* EUR have gone into a produced grid whose Total is not zero
C27_Witness ==
    /\ Produced
    /\ Len(expenses) = 2
    /\ expenses[1].exp_currency = "GBP"
    /\ expenses[1].exp_invoice = 0
    /\ expenses[2].exp_currency = "EUR"
    /\ expenses[2].exp_invoice_type = txt.Credit_Note
    /\ TotalRow[2] # RZero
    /\ CreditNoteRow[2] # RZero


---------------------------------------------------------------------------
(* Requests for ATS over a few linked rows, one row more than elsewhere.   *)

\* fuel rows and Disbursement fees of one invoice, flight and place: without
\* period, starting before the cutoff (open and closed), starting on it
CutoffRows ==
    { [BlankExpense EXCEPT !.exp_type = t,
                           !.exp_period_start = p.exp_period_start,
                           !.exp_period_end = p.exp_period_end,
                           !.exp_invoice = 1, !.exp_flight = 7,
                           !.exp_place = "DXB"] :
        t \in {cat.Fuel, txt.Disbursement_Fee},
        p \in { q \in ATSPeriods :
                  \/ q.exp_period_start = NullDate
                  \/ q.exp_period_start.y = october2025.y
                       /\ q.exp_period_start.m \in {october2025.m - 1, october2025.m} } }

InitCutoff ==
    \E n \in 0..(MaxExpenses + 1) :
        \E rows \in [1..n -> CutoffRows] :
            Arrives(withIds(rows),
                    [yearFilter |-> "all", showSubcategories |-> FALSE,
                     reportForATS |-> TRUE],
                    [y |-> october2025.y, m |-> 11, d |-> MidDay])

SpecCutoff == InitCutoff /\ [][Next]_vars

---------------------------------------------------------------------------
(* Vocabulary of the characterisation of the ATS exclusions.               *)

\* a Disbursement fee without any period
FeeWithoutPeriod(expense) ==
    /\ isDisbursementFee(expense)
    /\ expense.exp_period_start = NullDate
    /\ expense.exp_period_end = NullDate

\* the ids the filter keeps when it is handed the same rows in another order
KeptIds(list) ==
    LET kept == applyATSFilter(list, TRUE)
    IN  { kept[k].id : k \in 1..Len(kept) }

Reordered(order) == [k \in 1..Len(expenses) |-> expenses[order[k]]]

\* the filter has run and the loop has not started
JustFiltered == pc = "loop" /\ idx = 0

---------------------------------------------------------------------------
(* C28: characterisation of the ATS exclusions.  Every expense the ATS     *)
(* filter removes has a period_start strictly before 2025-10-01 or is a    *)
(* Disbursement fee with neither period_start nor period_end; so no        *)
(* expense whose period_start is on or after the cutoff is removed, and    *)
(* the filtered result does not depend on the order of the input list.     *)
C28_ATSExclusions ==
    ATSApplied =>
        /\ \A k \in 1..Len(expenses) :
              ~InFiltered(expenses[k]) =>
                 \/ StartsBeforeCutoff(expenses[k])
                 \/ FeeWithoutPeriod(expenses[k])
        /\ \A k \in 1..Len(expenses) :
              ( /\ expenses[k].exp_period_start # NullDate
                /\ ~DateBefore(expenses[k].exp_period_start, october2025) )
                 => InFiltered(expenses[k])
        /\ JustFiltered =>
              \A order \in Permutations(1..Len(expenses)) :
                  KeptIds(Reordered(order))
                    = { filteredExpenses[k].id : k \in 1..Len(filteredExpenses) }

\* C28's case: a fee without period is removed along with an expense that
\* starts before the cutoff and has no period_end; a fee of the same links
\* that starts on the cutoff is kept
C28_Witness ==
    /\ ATSApplied
    /\ Len(expenses) = 3
    /\ Len(filteredExpenses) = 1
    /\ filteredExpenses[1].exp_period_start = october2025
    /\ isDisbursementFee(filteredExpenses[1])
    /\ FeeWithoutPeriod(expenses[1])
    /\ ~isDisbursementFee(expenses[3])
    /\ StartsBeforeCutoff(expenses[3])
    /\ expenses[3].exp_period_end = NullDate


---------------------------------------------------------------------------
(* The two copies of the month split agree.                                *)

\* C29: the inline split of a regular expense and splitExpenseByMonths give,
\* for every expense, the same sequence of month keys with the same amount
\* (and currency) for each month: whichever copy ran, the months it produced
\* are the months the other copy produces for that expense.
C29_SplitCopiesAgree ==
    /\ pc = "helper" => months = regularSplit(expenses[1])
    /\ pc = "inline" => months = splitExpenseByMonths(expenses[1])

\* the inline copy has spread an unlinked expense with a period over several
\* months
C29_Witness ==
    /\ pc = "inline"
    /\ ~hasFlightDate(expenses[1])
    /\ Len(months) > 1
    /\ months[1].amount # amountOf(expenses[1])

====
